---- MODULE Spec2Model ----
(***************************************************************************)
(* Model of the audio ingest / segmentation / transcription pipeline of    *)
(* backend_python:                                                         *)
(*   - RealtimeSttClient   (realtime_stt_client.py)                        *)
(*   - VADSegmenter        (vad_segmenter.py)                              *)
(*   - WebRTCHandler turn coordinator (webrtc_handler.py)                  *)
(*   - AudioEncoder        (audio_encoder.py)                              *)
(* Each component has its own specification (SpecClient, SpecSeg,          *)
(* SpecTurn, SpecEnc) over one shared set of variables; a component's      *)
(* next-state relation leaves the other components' variables unchanged.   *)
(***************************************************************************)
EXTENDS Integers, Sequences, FiniteSets, TLC

VARIABLES
    \* ---- RealtimeSttClient ----
    connected,          \* self._connected
    ws_state,           \* self.ws: "none" (None), "open", "closed" (peer closed it)
    appended_chunks,    \* self._appended_chunks
    buffered_ms,        \* self._buffered_ms
    pending_appends,    \* self._pending_appends
    cpc,                \* per calling task: where it is suspended inside a client call
    n_calls,            \* number of client calls started so far (history)
    last_call,          \* the most recent client call: [op, bytes] (history)
    wire_count,         \* number of messages written to the socket (history)
    last_append_bytes,  \* payload size of the last append written: {} or {n} (history)
    last_commit_at,     \* counters at the moment the last commit was written: {} or {rec}
    append_ret,         \* how the last finished append_audio call ended (history)
    sends_done,         \* appends whose send completed since the last commit or clear
                        \* that completed its own send (history)
    rx_state,           \* self._receiver_task / _receiver_loop: "none" (not started),
                        \* "running", "closed" (ended with the socket), "failed"
                        \* (ended by another exception), "cancelled" (by close())
    \* ---- VADSegmenter ----
    seg_state,          \* self.state: "IDLE", "SPEECH", "HANGOVER"
    seg_appended_chunks,\* self.appended_chunks (chunks appended in the current segment)
    segment_id,         \* self._segment_id
    hangover_ms,        \* self.hangover_ms (after the clamp of __init__)
    hangover_task,      \* self._hangover_task: 0 (None) or the id of a task
    n_tasks,            \* hangover tasks created so far; their ids are 1..n_tasks
    live_tasks,         \* ids of hangover tasks neither finished nor cancelled
    has_get_buffered,   \* whether on_get_buffered_ms was given to __init__
    hangover_cfg,       \* the hangover_ms argument of __init__ (history)
    n_chunks_in,        \* process_chunk calls so far (history)
    n_speech_in,        \* of those, calls with is_speech = True (history)
    cb_clear,           \* on_clear invocations (history)
    cb_append,          \* on_append invocations (history)
    seg_clears,         \* on_clear invocations since the last IDLE->SPEECH began
    speech_end_task,    \* the task started at the last SPEECH->HANGOVER (history)
    utter_open,         \* speech was fed and no hangover has expired since (history)
    n_utter,            \* utterances fed: speech runs separated by an expiry (history)
    n_expired,          \* hangover expiries that ran their check in HANGOVER (history)
    n_skipped,          \* of those, expiries that skipped the commit (history)
    commit_log,         \* on_commit invocations that ended: <<[seg, turn, task, ..., ok], ...>>
    seg_lock,           \* {} or the hangover task that holds self._lock inside
                        \* on_commit: {[task, buffered]}
    cb_log,             \* the callbacks invoked, in order: <<[cb, seg, chunk], ...>>
    idle_dropped,       \* numbers of the non-speech chunks fed while IDLE (history)
    seg_open_chunk,     \* number of the chunk that opened the latest segment (history)
    seg_failed,         \* ids of the segments in which an on_append call raised (history)
    \* ---- WebRTCHandler turn state ----
    turn_id,            \* self.turn_id
    in_speech,          \* self.in_speech
    awaiting_final,     \* self.awaiting_final
    turn_text_buffer,   \* self.turn_text_buffer (a sequence of characters)
    final_timeout_task, \* self.final_timeout_task: 0 (None) or the id of a task
    ft_tasks,           \* the _handle_final_timeout tasks created: <<[status, turn, text], ...>>
    rx_llm,             \* the receive loop inside _call_llm_for_turn: {} or {[turn, text]}
    dc_state,           \* self.data_channel: "none" (None), "open", "closed"
    last_msg,           \* the latest send_json call: {} or {[type, turn_id, text, delta, ok]}
    n_msgs,             \* number of send_json calls so far (history)
    vad_log,            \* the types of the vad.* messages emitted, in order (history)
    n_final,            \* per turn id, the number of stt.final messages emitted (history)
    n_err_closed,       \* stt.error messages emitted since the provider socket closed
                        \* (history)
    n_events,           \* provider events dispatched so far (history)
    turn_deltas,        \* the deltas dispatched since the last speech_started,
                        \* concatenated as the provider sent them (history)
    last_event,         \* the provider event dispatched last: [type, arg] (history)
    \* ---- AudioEncoder ----
    enc_buffer,         \* self.buffer: the samples not yet emitted
    enc_ret,            \* the chunks the last process_frame call returned
    enc_fed,            \* normalized samples fed since construction or clear (history)
    enc_out,            \* the chunks emitted since construction or clear (history)
    enc_calls,          \* process_frame calls so far (history)
    \* ---- AudioTrackReceiver and the mic flag ----
    mic_enabled,        \* WebRTCHandler.mic_enabled, read through mic_enabled_callback
    last_mic_msg,       \* type of the last DataChannel message handled (history)
    frame_log,          \* the frames recv() has read: <<[mic, fed, n], ...>> (history)
    ingest_sent,        \* the chunks recv() passed to append_audio, in order (history)
    \* ---- WebRTCHandler session: tasks and peer connection ----
    worker_state,       \* self.receiver_task, the _stt_receiver_worker task: "none"
                        \* (None), "created", "done", "cancelled"
    monitor_state,      \* monitor_task of _stt_receiver_worker: "none", "running",
                        \* "cancelled"
    pc_state,           \* self.pc.connectionState: "open" (any but closed), "closed"
    pc_close_calls,     \* calls of self.pc.close() so far (history)
    cleanup_done,       \* cleanup() has run to its end
    \* ---- RealtimeSttClient._handle_event ----
    last_cb,            \* the callback _handle_event invoked for the event it
                        \* handled last: [cb, arg], cb "none" when it invoked none
                        \* (history, kept by HandleEvent)
    \* ---- VADSegmenter.cleanup ----
    seg_cleanup         \* the cleanup() call: [pc, cancelled, chunks, cbs]; pc is
                        \* "none", "waiting" (for the lock), "awaiting" (the
                        \* cancelled task, lock held) or "done"; cancelled is the
                        \* task it cancelled, chunks and cbs are n_chunks_in and
                        \* Len(cb_log) when it ended (history)

clientVars ==
    <<connected, ws_state, appended_chunks, buffered_ms, pending_appends, cpc,
      n_calls, last_call, wire_count, last_append_bytes, last_commit_at,
      append_ret, sends_done, rx_state>>

segVars ==
    <<seg_state, seg_appended_chunks, segment_id, hangover_ms, hangover_task,
      n_tasks, live_tasks, has_get_buffered, hangover_cfg, n_chunks_in,
      n_speech_in, cb_clear, cb_append, seg_clears, speech_end_task, utter_open,
      n_utter, n_expired, n_skipped, commit_log, seg_lock, cb_log, idle_dropped,
      seg_open_chunk, seg_failed>>

\* what the model records of the control messages
ctrlVars ==
    <<last_msg, n_msgs, vad_log, n_final, n_err_closed>>

\* the coordinator's state apart from the record of the control messages
turnState ==
    <<turn_id, in_speech, awaiting_final, turn_text_buffer, final_timeout_task,
      ft_tasks, rx_llm, dc_state, n_events, turn_deltas, last_event>>

turnVars ==
    <<turnState, ctrlVars>>

\* the mic flag and the record of what AudioTrackReceiver.recv did
micVars ==
    <<mic_enabled, last_mic_msg, frame_log, ingest_sent>>

\* the session's tasks and its peer connection
sessVars ==
    <<worker_state, monitor_state, pc_state, pc_close_calls, cleanup_done>>

\* the media side of the session: the encoder, the receiver that owns it, and
\* the session it belongs to
encVars ==
    <<enc_buffer, enc_ret, enc_fed, enc_out, enc_calls, micVars, sessVars, last_cb,
      seg_cleanup>>

vars ==
    <<clientVars, segVars, turnVars, encVars>>

(***************************************************************************)
(* Bounds of the model                                                     *)
(***************************************************************************)
\* concurrent tasks calling into one RealtimeSttClient
NProcs ==
    2

\* client calls started in one run
MaxCalls ==
    8

\* process_chunk calls in one run
MaxChunksIn ==
    6

Procs ==
    1..NProcs

\* provider events dispatched to the turn coordinator in one run
MaxEvents ==
    5

\* delta fields of provider delta events
Deltas ==
    {<<"h">>, <<" ", "w">>, <<" ">>}

\* transcript fields of provider completed events
Transcripts ==
    {<<>>, <<"t">>}

\* process_frame calls in one run
MaxFrames ==
    4

\* lengths, in samples, of the normalized (24 kHz mono) form of a frame
FrameSamples ==
    {0, 100, 240, 480, 700, 960}

\* values of the hangover_ms argument of VADSegmenter.__init__
HangoverConfigs ==
    {100, 500, 1000}

\* values an on_get_buffered_ms callback returns
BufferedChoices ==
    {0, 80, 100, 200}

\* payload lengths handed to append_audio
PayloadSizes ==
    {0, 959, 960, 961}

(***************************************************************************)
(* Control channel: WebRTCHandler.send_json and the error callback          *)
(***************************************************************************)
\* send_json (webrtc_handler.py lines 399-441): the payload is sent only on an open DataChannel
SendJson(type, tid, text, delta) ==
    /\ last_msg' = {[type |-> type, turn_id |-> tid, text |-> text,
                     delta |-> delta, ok |-> (dc_state = "open")]}
    /\ n_msgs' = n_msgs + 1
    /\ vad_log' = IF type \in {"vad.speech_started", "vad.speech_stopped"}
                    THEN Append(vad_log, type) ELSE vad_log
    /\ n_final' = IF type = "stt.final"
                    THEN [n_final EXCEPT ![tid] = @ + 1] ELSE n_final
    /\ n_err_closed' = IF type = "stt.error" /\ ws_state = "closed"
                         THEN n_err_closed + 1 ELSE n_err_closed

\* the stt.error payload has no turn_id (webrtc_handler.py lines 739-742)
NoTurn ==
    -1

\* _on_stt_error (webrtc_handler.py lines 736-742)
OnSttError ==
    SendJson("stt.error", NoTurn, <<"e">>, <<>>)

\* "if self._on_error: await self._on_error(e)" (realtime_stt_client.py lines
\* 225-226, 280-281, 356-357, 365-366): the callback is the one
\* start_receiver_loop stored (line 334)
ClientOnError ==
    IF rx_state # "none" THEN OnSttError ELSE UNCHANGED ctrlVars

(***************************************************************************)
(* RealtimeSttClient                                                       *)
(***************************************************************************)
\* realtime_stt_client.py:29  sample_rate: int = 24000
sample_rate ==
    24000

\* realtime_stt_client.py:36  self.chunk_ms = 20
chunk_ms ==
    20

\* realtime_stt_client.py:37  int(sample_rate * (chunk_ms / 1000.0) * 2)
expected_bytes ==
    (sample_rate * chunk_ms * 2) \div 1000

\* realtime_stt_client.py:254  commit needs buffered_ms >= 100
CommitMinMs ==
    100

ClientInit ==
    /\ connected = FALSE
    /\ ws_state = "none"
    /\ appended_chunks = 0
    /\ buffered_ms = 0
    /\ pending_appends = 0
    /\ cpc = [p \in Procs |-> "idle"]
    /\ n_calls = 0
    /\ last_call = [op |-> "none", bytes |-> 0]
    /\ wire_count = 0
    /\ last_append_bytes = {}
    /\ last_commit_at = {}
    /\ append_ret = "none"
    /\ sends_done = 0
    /\ rx_state = "none"

\* append_audio line 173 / commit line 249 / clear line 289
NotUsable ==
    ~connected \/ ws_state = "none"

\* mutant of SizeOk: the length check is dropped
SizeOk_NoCheck(n) ==
    TRUE

\* append_audio line 180: actual_size != self.expected_bytes raises ValueError
SizeOk(n) ==
    n = expected_bytes

\* mutant of NotConnectedResult: the call raises instead
NotConnectedResult_Raise ==
    "raise"

\* append_audio line 174: what a call on a disconnected client gives back
NotConnectedResult ==
    "False"

\* a call starts on task p
StartCall(p, op, n) ==
    /\ cpc[p] = "idle"
    /\ n_calls < MaxCalls
    /\ n_calls' = n_calls + 1
    /\ last_call' = [op |-> op, bytes |-> n]

\* connect(): opens the socket once and marks the client connected
Connect ==
    /\ UNCHANGED <<segVars, turnVars, encVars, rx_state>>
    /\ ~connected
    /\ ws_state = "none"
    /\ connected' = TRUE
    /\ ws_state' = "open"
    /\ UNCHANGED <<appended_chunks, buffered_ms, pending_appends, cpc, n_calls,
                   last_call, wire_count, last_append_bytes, last_commit_at,
                   append_ret, sends_done>>

\* the provider or the network closes the socket; the flag follows only when a
\* send (send_event line 151-155) or the receive loop notices
WsClosed ==
    /\ UNCHANGED <<segVars, turnVars, encVars, rx_state>>
    /\ ws_state = "open"
    /\ ws_state' = "closed"
    /\ UNCHANGED <<connected, appended_chunks, buffered_ms, pending_appends, cpc,
                   n_calls, last_call, wire_count, last_append_bytes, last_commit_at,
                   append_ret, sends_done>>

\* append_audio up to the suspension inside ws.send
AppendCall(p, n) ==
    /\ UNCHANGED <<segVars, turnState, encVars, rx_state>>
    /\ StartCall(p, "append", n)
    /\ IF NotUsable
         THEN \* line 174: return False
              /\ append_ret' = NotConnectedResult
              /\ UNCHANGED ctrlVars
              /\ UNCHANGED <<connected, ws_state, appended_chunks, buffered_ms,
                             pending_appends, cpc, wire_count, last_append_bytes,
                             last_commit_at>>
         ELSE IF ~SizeOk(n)
           THEN \* ValueError, caught at line 223: on_error, return False
                /\ append_ret' = "False"
                /\ ClientOnError
                /\ UNCHANGED <<connected, ws_state, appended_chunks, buffered_ms,
                               pending_appends, cpc, wire_count, last_append_bytes,
                               last_commit_at>>
           ELSE /\ pending_appends' = pending_appends + 1
                /\ UNCHANGED ctrlVars
                /\ IF ws_state = "open"
                     THEN \* the frame is written; ws.send may suspend before returning
                          /\ wire_count' = wire_count + 1
                          /\ last_append_bytes' = {n}
                          /\ cpc' = [cpc EXCEPT ![p] = "append_sending"]
                          /\ UNCHANGED <<connected, append_ret>>
                     ELSE \* ConnectionClosed: send_event line 154, append_audio line 220
                          /\ connected' = FALSE
                          /\ append_ret' = "False"
                          /\ UNCHANGED <<wire_count, last_append_bytes, cpc>>
                /\ UNCHANGED <<ws_state, appended_chunks, buffered_ms, last_commit_at>>
    /\ UNCHANGED sends_done

\* mutant of BufferedMsOf: appends still in flight are counted as well
BufferedMsOf_WithPending(chunks) ==
    (chunks + pending_appends) * chunk_ms

\* append_audio line 210: self._buffered_ms = self._appended_chunks * self.chunk_ms
BufferedMsOf(chunks) ==
    chunks * chunk_ms

\* append_audio after ws.send: lines 208-216, or the ConnectionClosed path
AppendReturn(p) ==
    /\ UNCHANGED <<segVars, turnVars, encVars, rx_state>>
    /\ cpc[p] = "append_sending"
    /\ cpc' = [cpc EXCEPT ![p] = "idle"]
    /\ IF ws_state = "open"
         THEN /\ appended_chunks' = appended_chunks + 1
              /\ pending_appends' = pending_appends - 1
              /\ buffered_ms' = BufferedMsOf(appended_chunks + 1)
              /\ append_ret' = "True"
              /\ sends_done' = sends_done + 1
              /\ UNCHANGED connected
         ELSE /\ connected' = FALSE
              /\ append_ret' = "False"
              /\ UNCHANGED <<appended_chunks, pending_appends, buffered_ms,
                             sends_done>>
    /\ UNCHANGED <<ws_state, n_calls, last_call, wire_count, last_append_bytes,
                   last_commit_at>>

\* commit lines 267-281: send_event and what follows, entered with no suspension
\* since the last test of the counters when flush did not wait
CommitSend(p) ==
    IF NotUsable
      THEN \* send_event raises RuntimeError("Not connected"), caught at line 278:
           \* on_error
           /\ cpc' = [cpc EXCEPT ![p] = "idle"]
           /\ ClientOnError
           /\ UNCHANGED <<connected, wire_count, last_commit_at>>
      ELSE IF ws_state = "open"
        THEN /\ wire_count' = wire_count + 1
             /\ last_commit_at' = {[buffered_ms |-> buffered_ms,
                                    pending |-> pending_appends]}
             /\ cpc' = [cpc EXCEPT ![p] = "commit_sending"]
             /\ UNCHANGED <<connected, ctrlVars>>
        ELSE \* ConnectionClosed (send_event line 154), caught at line 278: on_error
             /\ connected' = FALSE
             /\ cpc' = [cpc EXCEPT ![p] = "idle"]
             /\ ClientOnError
             /\ UNCHANGED <<wire_count, last_commit_at>>

\* commit lines 249-265: the guards, then flush
CommitCall(p) ==
    /\ UNCHANGED <<segVars, turnState, encVars, rx_state>>
    /\ StartCall(p, "commit", 0)
    /\ IF \/ NotUsable
          \/ buffered_ms < CommitMinMs
          \/ pending_appends * chunk_ms >= CommitMinMs
         THEN UNCHANGED <<connected, cpc, wire_count, last_commit_at, ctrlVars>>
         ELSE IF pending_appends > 0
           THEN \* flush line 236: sleeps while appends are pending
                /\ cpc' = [cpc EXCEPT ![p] = "flush"]
                /\ UNCHANGED <<connected, wire_count, last_commit_at, ctrlVars>>
           ELSE CommitSend(p)
    /\ UNCHANGED <<ws_state, appended_chunks, buffered_ms, pending_appends,
                   last_append_bytes, append_ret, sends_done>>

\* flush lines 236-241: the loop ends when nothing is pending or after max_wait
\* (1 s of 10 ms sleeps); the model has no clock, so the time-out is a choice
FlushDone(p, timed_out) ==
    /\ UNCHANGED <<segVars, turnState, encVars, rx_state>>
    /\ cpc[p] = "flush"
    /\ pending_appends <= 0 \/ timed_out
    /\ CommitSend(p)
    /\ UNCHANGED <<ws_state, appended_chunks, buffered_ms, pending_appends,
                   n_calls, last_call, last_append_bytes, append_ret, sends_done>>

\* commit lines 273-277 after ws.send returned, or the exception path
CommitReturn(p) ==
    /\ UNCHANGED <<segVars, turnState, encVars, rx_state>>
    /\ cpc[p] = "commit_sending"
    /\ cpc' = [cpc EXCEPT ![p] = "idle"]
    /\ IF ws_state = "open"
         THEN /\ appended_chunks' = 0
              /\ buffered_ms' = 0
              /\ sends_done' = 0
              /\ UNCHANGED <<connected, ctrlVars>>
         ELSE \* ConnectionClosed out of ws.send, caught at line 278: on_error
              /\ connected' = FALSE
              /\ ClientOnError
              /\ UNCHANGED <<appended_chunks, buffered_ms, sends_done>>
    /\ UNCHANGED <<ws_state, pending_appends, n_calls, last_call, wire_count,
                   last_append_bytes, last_commit_at, append_ret>>

\* clear lines 289-297
ClearCall(p) ==
    /\ UNCHANGED <<segVars, turnVars, encVars, rx_state>>
    /\ StartCall(p, "clear", 0)
    /\ IF NotUsable
         THEN UNCHANGED <<connected, cpc, wire_count>>
         ELSE IF ws_state = "open"
           THEN /\ wire_count' = wire_count + 1
                /\ cpc' = [cpc EXCEPT ![p] = "clear_sending"]
                /\ UNCHANGED connected
           ELSE /\ connected' = FALSE
                /\ UNCHANGED <<cpc, wire_count>>
    /\ UNCHANGED <<ws_state, appended_chunks, buffered_ms, pending_appends,
                   last_append_bytes, last_commit_at, append_ret, sends_done>>

\* clear lines 299-306
ClearReturn(p) ==
    /\ UNCHANGED <<segVars, turnVars, encVars, rx_state>>
    /\ cpc[p] = "clear_sending"
    /\ cpc' = [cpc EXCEPT ![p] = "idle"]
    /\ IF ws_state = "open"
         THEN /\ appended_chunks' = 0
              /\ buffered_ms' = 0
              /\ pending_appends' = 0
              /\ sends_done' = 0
              /\ UNCHANGED connected
         ELSE /\ connected' = FALSE
              /\ UNCHANGED <<appended_chunks, buffered_ms, pending_appends,
                             sends_done>>
    /\ UNCHANGED <<ws_state, n_calls, last_call, wire_count, last_append_bytes,
                   last_commit_at, append_ret>>

\* start_receiver_loop (lines 332-340): the callbacks are stored and the
\* receive task is created once; _receiver_loop returns at once when there is
\* no socket (lines 344-345)
StartReceiverLoop ==
    /\ rx_state = "none"
    /\ rx_state' = IF ws_state = "none" THEN "returned" ELSE "running"
    /\ UNCHANGED <<connected, ws_state, appended_chunks, buffered_ms,
                   pending_appends, cpc, n_calls, last_call, wire_count,
                   last_append_bytes, last_commit_at, append_ret, sends_done>>
    /\ UNCHANGED <<segVars, turnVars, encVars>>

\* _receiver_loop when the socket has closed: "async for message in self.ws"
\* (line 348) ends silently after a normal closure (ok_close) and raises
\* ConnectionClosed otherwise, whose handler (lines 359-361) logs a warning,
\* clears the flag and calls no callback
RecvLoopClosed(ok_close) ==
    /\ rx_state = "running"
    /\ rx_llm = {}
    /\ ws_state = "closed"
    /\ rx_state' = "closed"
    /\ connected' = IF ok_close THEN connected ELSE FALSE
    /\ UNCHANGED ctrlVars
    /\ UNCHANGED <<ws_state, appended_chunks, buffered_ms, pending_appends, cpc,
                   n_calls, last_call, wire_count, last_append_bytes,
                   last_commit_at, append_ret, sends_done>>
    /\ UNCHANGED <<segVars, turnState, encVars>>

\* _receiver_loop lines 362-366: any other exception out of the iteration
\* ends the loop, marks the client disconnected and is passed to on_error
RecvLoopFailed ==
    /\ rx_state = "running"
    /\ rx_llm = {}
    /\ rx_state' = "failed"
    /\ connected' = FALSE
    /\ OnSttError
    /\ UNCHANGED <<ws_state, appended_chunks, buffered_ms, pending_appends, cpc,
                   n_calls, last_call, wire_count, last_append_bytes,
                   last_commit_at, append_ret, sends_done>>
    /\ UNCHANGED <<segVars, turnState, encVars>>

ClientNext ==
    \/ Connect
    \/ StartReceiverLoop
    \/ \E ok_close \in BOOLEAN : RecvLoopClosed(ok_close)
    \/ WsClosed
    \/ \E p \in Procs, n \in PayloadSizes : AppendCall(p, n)
    \/ \E p \in Procs : AppendReturn(p)
    \/ \E p \in Procs : CommitCall(p)
    \/ \E p \in Procs, t \in BOOLEAN : FlushDone(p, t)
    \/ \E p \in Procs : CommitReturn(p)
    \/ \E p \in Procs : ClearCall(p)
    \/ \E p \in Procs : ClearReturn(p)


(***************************************************************************)
(* VADSegmenter                                                            *)
(* process_chunk and the body of _wait_for_hangover run under self._lock,  *)
(* so each is one step; a hangover task whose sleep has ended but which    *)
(* still waits for the lock behaves as a sleeping one (it can be cancelled *)
(* and has not looked at the state yet).  The callbacks are the caller's:  *)
(* on_append may raise, on_get_buffered_ms returns any of BufferedChoices. *)
(***************************************************************************)
\* vad_segmenter.py:39  min_commit_ms: int = 100
min_commit_ms ==
    100

\* vad_segmenter.py:56  self.chunk_ms = 20
seg_chunk_ms ==
    20

\* mutant of ClampHangover: the argument is taken as given
ClampHangover_AsGiven(h) ==
    h

\* vad_segmenter.py:54  max(300, min(800, hangover_ms))
ClampHangover(h) ==
    IF h > 800 THEN 800 ELSE IF h < 300 THEN 300 ELSE h

\* VADSegmenter.__init__ (lines 49-71) for the given argument values
SegInit(cfgs, flags) ==
    /\ seg_state = "IDLE"
    /\ seg_appended_chunks = 0
    /\ segment_id = 0
    /\ hangover_cfg \in cfgs
    /\ hangover_ms = ClampHangover(hangover_cfg)
    /\ hangover_task = 0
    /\ n_tasks = 0
    /\ live_tasks = {}
    /\ has_get_buffered \in flags
    /\ n_chunks_in = 0
    /\ n_speech_in = 0
    /\ cb_clear = 0
    /\ cb_append = 0
    /\ seg_clears = 0
    /\ speech_end_task = 0
    /\ utter_open = FALSE
    /\ n_utter = 0
    /\ n_expired = 0
    /\ n_skipped = 0
    /\ commit_log = <<>>
    /\ seg_lock = {}
    /\ cb_log = <<>>
    /\ idle_dropped = {}
    /\ seg_open_chunk = 0
    /\ seg_failed = {}
    /\ seg_cleanup = [pc |-> "none", cancelled |-> 0, chunks |-> 0, cbs |-> 0]

\* mutant of LockFree: the lock is not waited for
LockFree_Always ==
    TRUE

\* "async with self._lock" (lines 82, 192, 231): the lock can be taken; it is
\* held by a hangover task inside on_commit or by cleanup awaiting the task
LockFree ==
    seg_lock = {} /\ seg_cleanup.pc # "awaiting"

\* an invocation of a callback, as recorded: chunk is the number of the chunk
\* handed to on_append, 0 for on_clear and on_commit
Callback(cb, seg, chunk) ==
    [cb |-> cb, seg |-> seg, chunk |-> chunk]

\* the inputs of one process_chunk call, recorded; the call runs under the lock
ChunkFed(is_speech) ==
    /\ LockFree
    /\ n_chunks_in < MaxChunksIn
    /\ n_chunks_in' = n_chunks_in + 1
    /\ n_speech_in' = n_speech_in + (IF is_speech THEN 1 ELSE 0)
    /\ utter_open' = (utter_open \/ is_speech)
    /\ n_utter' = n_utter + (IF is_speech /\ ~utter_open THEN 1 ELSE 0)

\* "await self.on_append(pcm16_bytes); self.appended_chunks += 1" inside try:
\* the counter moves only when the callback returns normally
AfterAppend(n, ok) ==
    IF ok THEN n + 1 ELSE n

\* mutant of NextSegmentId: the id is not advanced
NextSegmentId_Same ==
    segment_id

\* line 92: self._segment_id += 1
NextSegmentId ==
    segment_id + 1

\* mutant of ChunkIdle: silence in IDLE is appended as well
ChunkIdle_AppendSilence(is_speech, ok) ==
    /\ seg_state = "IDLE"
    /\ ChunkFed(is_speech)
    /\ seg_failed' = IF is_speech /\ ~ok THEN seg_failed \cup {NextSegmentId}
                                        ELSE seg_failed
    /\ cb_append' = cb_append + 1
    /\ IF is_speech
         THEN /\ seg_state' = "SPEECH"
              /\ segment_id' = NextSegmentId
              /\ cb_clear' = cb_clear + 1
              /\ seg_clears' = 1
              /\ seg_appended_chunks' = AfterAppend(0, ok)
              /\ cb_log' = cb_log \o <<Callback("clear", NextSegmentId, 0),
                                       Callback("append", NextSegmentId,
                                                n_chunks_in + 1)>>
              /\ seg_open_chunk' = n_chunks_in + 1
              /\ UNCHANGED idle_dropped
         ELSE /\ cb_log' = Append(cb_log, Callback("append", segment_id,
                                        n_chunks_in + 1))
              /\ idle_dropped' = idle_dropped \cup {n_chunks_in + 1}
              /\ UNCHANGED <<seg_state, segment_id, cb_clear, seg_clears,
                             seg_appended_chunks, seg_open_chunk>>
    /\ UNCHANGED <<hangover_ms, hangover_task, n_tasks, live_tasks, has_get_buffered,
                   hangover_cfg, speech_end_task, n_expired, n_skipped, commit_log,
                   seg_lock>>
    /\ UNCHANGED <<clientVars, turnVars, encVars>>

\* process_chunk, state IDLE (lines 85-128)
ChunkIdle(is_speech, ok) ==
    /\ seg_state = "IDLE"
    /\ ChunkFed(is_speech)
    /\ seg_failed' = IF is_speech /\ ~ok THEN seg_failed \cup {NextSegmentId}
                                        ELSE seg_failed
    /\ IF is_speech
         THEN /\ seg_state' = "SPEECH"
              /\ segment_id' = NextSegmentId
              \* on_clear (line 117), then on_append of the first chunk (line 124)
              /\ cb_clear' = cb_clear + 1
              /\ seg_clears' = 1
              /\ cb_append' = cb_append + 1
              /\ seg_appended_chunks' = AfterAppend(0, ok)
              /\ cb_log' = cb_log \o <<Callback("clear", NextSegmentId, 0),
                                       Callback("append", NextSegmentId,
                                                n_chunks_in + 1)>>
              /\ seg_open_chunk' = n_chunks_in + 1
              /\ UNCHANGED idle_dropped
         ELSE \* silence in IDLE is ignored (line 128)
              /\ idle_dropped' = idle_dropped \cup {n_chunks_in + 1}
              /\ UNCHANGED <<seg_state, segment_id, cb_clear, seg_clears, cb_append,
                             seg_appended_chunks, cb_log, seg_open_chunk>>
    /\ UNCHANGED <<hangover_ms, hangover_task, n_tasks, live_tasks, has_get_buffered,
                   hangover_cfg, speech_end_task, n_expired, n_skipped, commit_log,
                   seg_lock>>
    /\ UNCHANGED <<clientVars, turnVars, encVars>>

\* process_chunk, state SPEECH (lines 130-161)
ChunkSpeech(is_speech, ok) ==
    /\ seg_state = "SPEECH"
    /\ ChunkFed(is_speech)
    /\ seg_failed' = IF ok THEN seg_failed ELSE seg_failed \cup {segment_id}
    /\ cb_append' = cb_append + 1
    /\ cb_log' = Append(cb_log, Callback("append", segment_id,
                                        n_chunks_in + 1))
    /\ seg_appended_chunks' = AfterAppend(seg_appended_chunks, ok)
    /\ IF is_speech
         THEN UNCHANGED <<seg_state, hangover_task, n_tasks, live_tasks,
                          speech_end_task>>
         ELSE \* SPEECH -> HANGOVER: cancel an old task, start _wait_for_hangover
              /\ seg_state' = "HANGOVER"
              /\ n_tasks' = n_tasks + 1
              /\ hangover_task' = n_tasks + 1
              /\ live_tasks' = (live_tasks \ {hangover_task}) \cup {n_tasks + 1}
              /\ speech_end_task' = n_tasks + 1
    /\ UNCHANGED <<segment_id, hangover_ms, has_get_buffered, hangover_cfg, cb_clear,
                   seg_clears, n_expired, n_skipped, commit_log, seg_lock,
                   idle_dropped, seg_open_chunk>>
    /\ UNCHANGED <<clientVars, turnVars, encVars>>

\* mutant of ChunkHangover: the resume calls on_clear again
ChunkHangover_ClearOnResume(is_speech, ok) ==
    /\ seg_state = "HANGOVER"
    /\ ChunkFed(is_speech)
    /\ seg_failed' = IF ok THEN seg_failed ELSE seg_failed \cup {segment_id}
    /\ cb_append' = cb_append + 1
    /\ seg_appended_chunks' = AfterAppend(seg_appended_chunks, ok)
    /\ IF is_speech
         THEN /\ live_tasks' = live_tasks \ {hangover_task}
              /\ hangover_task' = 0
              /\ seg_state' = "SPEECH"
              /\ cb_clear' = cb_clear + 1
              /\ seg_clears' = seg_clears + 1
              /\ cb_log' = cb_log \o <<Callback("append", segment_id,
                                                n_chunks_in + 1),
                                       Callback("clear", segment_id, 0)>>
         ELSE /\ cb_log' = Append(cb_log, Callback("append", segment_id,
                                        n_chunks_in + 1))
              /\ UNCHANGED <<live_tasks, hangover_task, seg_state, cb_clear,
                             seg_clears>>
    /\ UNCHANGED <<segment_id, hangover_ms, n_tasks, has_get_buffered, hangover_cfg,
                   speech_end_task, n_expired, n_skipped, commit_log, seg_lock,
                   idle_dropped, seg_open_chunk>>
    /\ UNCHANGED <<clientVars, turnVars, encVars>>

\* mutant of ChunkHangover: the resume forgets to cancel the hangover task
ChunkHangover_NoCancel(is_speech, ok) ==
    /\ seg_state = "HANGOVER"
    /\ ChunkFed(is_speech)
    /\ seg_failed' = IF ok THEN seg_failed ELSE seg_failed \cup {segment_id}
    /\ cb_append' = cb_append + 1
    /\ seg_appended_chunks' = AfterAppend(seg_appended_chunks, ok)
    /\ IF is_speech
         THEN /\ hangover_task' = 0
              /\ seg_state' = "SPEECH"
              /\ UNCHANGED live_tasks
         ELSE UNCHANGED <<live_tasks, hangover_task, seg_state>>
    /\ cb_log' = Append(cb_log, Callback("append", segment_id,
                                        n_chunks_in + 1))
    /\ UNCHANGED <<segment_id, hangover_ms, n_tasks, has_get_buffered, hangover_cfg,
                   cb_clear, seg_clears, speech_end_task, n_expired, n_skipped,
                   commit_log, seg_lock, idle_dropped, seg_open_chunk>>
    /\ UNCHANGED <<clientVars, turnVars, encVars>>

\* process_chunk, state HANGOVER (lines 163-184)
ChunkHangover(is_speech, ok) ==
    /\ seg_state = "HANGOVER"
    /\ ChunkFed(is_speech)
    /\ seg_failed' = IF ok THEN seg_failed ELSE seg_failed \cup {segment_id}
    /\ cb_append' = cb_append + 1
    /\ seg_appended_chunks' = AfterAppend(seg_appended_chunks, ok)
    /\ IF is_speech
         THEN \* HANGOVER -> SPEECH: the segment continues, the task is cancelled
              /\ live_tasks' = live_tasks \ {hangover_task}
              /\ hangover_task' = 0
              /\ seg_state' = "SPEECH"
         ELSE UNCHANGED <<live_tasks, hangover_task, seg_state>>
    /\ cb_log' = Append(cb_log, Callback("append", segment_id,
                                        n_chunks_in + 1))
    /\ UNCHANGED <<segment_id, hangover_ms, n_tasks, has_get_buffered, hangover_cfg,
                   cb_clear, seg_clears, speech_end_task, n_expired, n_skipped,
                   commit_log, seg_lock, idle_dropped, seg_open_chunk>>
    /\ UNCHANGED <<clientVars, turnVars, encVars>>

\* _handle_segment_commit, the on_commit callback webrtc_handler.py:191 names:
\* a segmenter commit opens a new turn that awaits its final
HandleSegmentCommit ==
    /\ turn_id' = turn_id + 1
    /\ in_speech' = FALSE
    /\ awaiting_final' = TRUE
    /\ turn_text_buffer' = <<>>
    /\ UNCHANGED <<final_timeout_task, ft_tasks, rx_llm, dc_state, ctrlVars, n_events, turn_deltas, last_event>>

\* what on_get_buffered_ms returns, or the fallback (lines 199-203)
SttBufferedMs ==
    IF has_get_buffered
      THEN BufferedChoices
      ELSE {seg_appended_chunks * seg_chunk_ms}

\* mutant of CommitDue: the commit is attempted whatever is buffered
CommitDue_Always(ms) ==
    TRUE

\* "if stt_buffered_ms >= self.min_commit_ms" (line 205)
CommitDue(ms) ==
    ms >= min_commit_ms

\* _wait_for_hangover after the sleep, from taking the lock to the await of
\* on_commit (lines 192-212), or to the end when there is no commit, for a live
\* task t
HangoverExpire(t) ==
    /\ t \in live_tasks
    /\ LockFree
    /\ IF seg_state # "HANGOVER"
         THEN \* speech resumed meanwhile: return (line 196)
              /\ live_tasks' = live_tasks \ {t}
              /\ UNCHANGED <<seg_state, seg_appended_chunks, hangover_task,
                             utter_open, n_expired, n_skipped, seg_lock, cb_log>>
              /\ UNCHANGED turnVars
         ELSE \E ms \in SttBufferedMs :
                IF CommitDue(ms)
                  THEN \* on_commit is awaited with the lock held (line 212)
                       /\ HandleSegmentCommit
                       /\ seg_lock' = {[task |-> t, buffered |-> ms]}
                       /\ cb_log' = Append(cb_log, Callback("commit", segment_id, 0))
                       /\ UNCHANGED <<live_tasks, seg_state, seg_appended_chunks,
                                      hangover_task, utter_open, n_expired,
                                      n_skipped>>
                  ELSE \* no commit (line 216), HANGOVER -> IDLE (lines 219-221)
                       /\ live_tasks' = live_tasks \ {t}
                       /\ n_skipped' = n_skipped + 1
                       /\ seg_state' = "IDLE"
                       /\ seg_appended_chunks' = 0
                       /\ hangover_task' = 0
                       /\ utter_open' = FALSE
                       /\ n_expired' = n_expired + 1
                       /\ UNCHANGED <<seg_lock, cb_log>>
                       /\ UNCHANGED turnVars
    /\ UNCHANGED <<segment_id, hangover_ms, n_tasks, has_get_buffered, hangover_cfg,
                   n_chunks_in, n_speech_in, cb_clear, cb_append, seg_clears,
                   speech_end_task, n_utter, commit_log, idle_dropped,
                   seg_open_chunk, seg_failed>>
    /\ UNCHANGED <<clientVars, encVars>>

\* mutant of HangoverCommitDone: an exception of on_commit is not caught
\* around the call, the task ends with the state left as it is
HangoverCommitDone_NoCatch(t, ok) ==
    /\ \E h \in seg_lock :
          /\ h.task = t
          /\ commit_log' = Append(commit_log,
               [seg |-> segment_id, turn |-> turn_id, task |-> t,
                timer_ms |-> hangover_ms, buffered |-> h.buffered,
                speech_end |-> speech_end_task, ok |-> ok])
    /\ seg_lock' = {}
    /\ live_tasks' = live_tasks \ {t}
    /\ IF ok
         THEN /\ seg_state' = "IDLE"
              /\ seg_appended_chunks' = 0
              /\ hangover_task' = 0
              /\ utter_open' = FALSE
              /\ n_expired' = n_expired + 1
         ELSE UNCHANGED <<seg_state, seg_appended_chunks, hangover_task,
                          utter_open, n_expired>>
    /\ UNCHANGED <<segment_id, hangover_ms, n_tasks, has_get_buffered, hangover_cfg,
                   n_chunks_in, n_speech_in, cb_clear, cb_append, seg_clears,
                   speech_end_task, n_utter, n_skipped, cb_log, idle_dropped,
                   seg_open_chunk, seg_failed>>
    /\ UNCHANGED <<clientVars, turnVars, encVars>>

\* _wait_for_hangover once on_commit has returned or raised (lines 211-221):
\* an exception is caught and logged (lines 213-214); either way HANGOVER ->
\* IDLE, and the lock is released
HangoverCommitDone(t, ok) ==
    /\ \E h \in seg_lock :
          /\ h.task = t
          /\ commit_log' = Append(commit_log,
               [seg |-> segment_id, turn |-> turn_id, task |-> t,
                timer_ms |-> hangover_ms, buffered |-> h.buffered,
                speech_end |-> speech_end_task, ok |-> ok])
    /\ seg_lock' = {}
    /\ live_tasks' = live_tasks \ {t}
    /\ seg_state' = "IDLE"
    /\ seg_appended_chunks' = 0
    /\ hangover_task' = 0
    /\ utter_open' = FALSE
    /\ n_expired' = n_expired + 1
    /\ UNCHANGED <<segment_id, hangover_ms, n_tasks, has_get_buffered, hangover_cfg,
                   n_chunks_in, n_speech_in, cb_clear, cb_append, seg_clears,
                   speech_end_task, n_utter, n_skipped, cb_log, idle_dropped,
                   seg_open_chunk, seg_failed>>
    /\ UNCHANGED <<clientVars, turnVars, encVars>>

SegNext ==
    \/ \E sp \in BOOLEAN, ok \in BOOLEAN : ChunkIdle(sp, ok)
    \/ \E sp \in BOOLEAN, ok \in BOOLEAN : ChunkSpeech(sp, ok)
    \/ \E sp \in BOOLEAN, ok \in BOOLEAN : ChunkHangover(sp, ok)
    \/ \E t \in 1..MaxChunksIn : HangoverExpire(t)
    \/ \E t \in 1..MaxChunksIn, ok \in BOOLEAN : HangoverCommitDone(t, ok)

\* what a cleanup() call leaves alone besides the segmenter's own fields
SegCleanupFrame ==
    /\ UNCHANGED <<segment_id, hangover_ms, n_tasks, has_get_buffered, hangover_cfg,
                   n_chunks_in, n_speech_in, cb_clear, cb_append, seg_clears,
                   speech_end_task, n_utter, n_expired, n_skipped, commit_log,
                   seg_lock, cb_log, idle_dropped, seg_open_chunk, seg_failed>>
    /\ UNCHANGED <<clientVars, turnVars>>
    /\ UNCHANGED <<enc_buffer, enc_ret, enc_fed, enc_out, enc_calls, micVars,
                   sessVars, last_cb>>

\* cleanup (line 229) is called and reaches "async with self._lock" (line 231)
SegCleanupCall ==
    /\ seg_cleanup.pc \in {"none", "done"}
    /\ seg_cleanup' = [seg_cleanup EXCEPT !.pc = "waiting"]
    /\ UNCHANGED <<seg_state, seg_appended_chunks, hangover_task, live_tasks,
                   utter_open>>
    /\ SegCleanupFrame

\* lines 240-241: self.state = IDLE; self.appended_chunks = 0, and the call ends
SegCleanupEnd(cancelled) ==
    /\ seg_state' = "IDLE"
    /\ seg_appended_chunks' = 0
    /\ utter_open' = FALSE
    /\ seg_cleanup' = [pc |-> "done", cancelled |-> cancelled,
                       chunks |-> n_chunks_in, cbs |-> Len(cb_log)]

\* mutant of SegCleanupEnter: the timer task is neither cancelled nor awaited
SegCleanupEnter_NoCancel ==
    /\ seg_cleanup.pc = "waiting"
    /\ LockFree
    /\ hangover_task' = 0
    /\ SegCleanupEnd(0)
    /\ UNCHANGED live_tasks
    /\ SegCleanupFrame

\* cleanup takes the lock (line 231); with a task in the handle it cancels the
\* task and awaits it with the lock held (lines 232-236), without one it goes
\* on to lines 240-241 at once
SegCleanupEnter ==
    /\ seg_cleanup.pc = "waiting"
    /\ LockFree
    /\ IF hangover_task # 0
         THEN /\ live_tasks' = live_tasks \ {hangover_task}
              /\ seg_cleanup' = [seg_cleanup EXCEPT !.pc = "awaiting",
                                                    !.cancelled = hangover_task]
              /\ UNCHANGED <<seg_state, seg_appended_chunks, hangover_task,
                             utter_open>>
         ELSE /\ SegCleanupEnd(0)
              /\ UNCHANGED <<hangover_task, live_tasks>>
    /\ SegCleanupFrame

\* the cancelled task ends: CancelledError reaches it in its sleep or in its
\* wait for the lock and is swallowed (lines 223-225); the await of line 235
\* returns, the handle is dropped (line 238) and lines 240-241 follow
SegCleanupDone ==
    /\ seg_cleanup.pc = "awaiting"
    /\ hangover_task' = 0
    /\ SegCleanupEnd(seg_cleanup.cancelled)
    /\ UNCHANGED live_tasks
    /\ SegCleanupFrame

\* the segmenter with cleanup() calls at any point
SegCleanupNext ==
    \/ \E sp \in BOOLEAN : ChunkIdle(sp, TRUE)
    \/ \E sp \in BOOLEAN : ChunkSpeech(sp, TRUE)
    \/ \E sp \in BOOLEAN : ChunkHangover(sp, TRUE)
    \/ \E t \in 1..MaxChunksIn : HangoverExpire(t)
    \/ \E t \in 1..MaxChunksIn, ok \in BOOLEAN : HangoverCommitDone(t, ok)
    \/ SegCleanupCall
    \/ SegCleanupEnter
    \/ SegCleanupDone

(***************************************************************************)
(* WebRTCHandler turn state                                                *)
(***************************************************************************)
TurnInit ==
    /\ turn_id = 0
    /\ in_speech = FALSE
    /\ awaiting_final = FALSE
    /\ turn_text_buffer = <<>>
    /\ final_timeout_task = 0
    /\ ft_tasks = <<>>
    /\ rx_llm = {}
    /\ dc_state = "none"
    /\ last_msg = {}
    /\ n_msgs = 0
    /\ vad_log = <<>>
    /\ n_final = [T \in 0..MaxEvents |-> 0]
    /\ n_events = 0
    /\ turn_deltas = <<>>
    /\ n_err_closed = 0
    /\ last_event = [type |-> "none", arg |-> <<>>]

RECURSIVE LStrip(_)
\* str.strip(), leading part
LStrip(t) ==
    IF t # <<>> /\ Head(t) = " " THEN LStrip(Tail(t)) ELSE t

RECURSIVE RStrip(_)
\* str.strip(), trailing part
RStrip(t) ==
    IF t # <<>> /\ t[Len(t)] = " " THEN RStrip(SubSeq(t, 1, Len(t) - 1)) ELSE t

\* str.strip()
Strip(t) ==
    RStrip(LStrip(t))

\* the sentinel "[inaudible]" (lines 556, 717)
Inaudible ==
    <<"[inaudible]">>

\* on_datachannel (lines 358-361) with the channel opening
DcOpen ==
    /\ dc_state = "none"
    /\ dc_state' = "open"
    /\ UNCHANGED <<turn_id, in_speech, awaiting_final, turn_text_buffer,
                   final_timeout_task, ft_tasks, rx_llm, ctrlVars, n_events, turn_deltas, last_event>>
    /\ UNCHANGED <<clientVars, segVars, encVars>>

\* the client closes the DataChannel (lines 378-380); readyState is no longer "open"
DcClose ==
    /\ dc_state = "open"
    /\ dc_state' = "closed"
    /\ UNCHANGED <<turn_id, in_speech, awaiting_final, turn_text_buffer,
                   final_timeout_task, ft_tasks, rx_llm, ctrlVars, n_events, turn_deltas, last_event>>
    /\ UNCHANGED <<clientVars, segVars, encVars>>

\* task.done(): finished or cancelled
TaskDone(t) ==
    ft_tasks[t].status \in {"done", "cancelled"}

\* "if self.final_timeout_task and not self.final_timeout_task.done(): cancel; = None"
\* (lines 514-516 and 710-712), applied to the task list q
CancelFinalTimeout(q) ==
    IF final_timeout_task # 0 /\ ~TaskDone(final_timeout_task)
      THEN [q EXCEPT ![final_timeout_task].status = "cancelled"]
      ELSE q

\* the handle after the lines above
HandleAfterCancel ==
    IF final_timeout_task # 0 /\ ~TaskDone(final_timeout_task)
      THEN 0
      ELSE final_timeout_task

\* the receive loop takes one provider event and awaits its handling
\* (_receiver_loop lines 348-351): no event is dispatched while a callback runs
\* or when the loop is not running
Dispatch(type, arg) ==
    /\ rx_state = "running"
    /\ rx_llm = {}
    /\ n_events < MaxEvents
    /\ n_events' = n_events + 1
    /\ last_event' = [type |-> type, arg |-> arg]

\* _on_speech_started (lines 505-524)
OnSpeechStarted ==
    /\ turn_id' = turn_id + 1
    /\ in_speech' = TRUE
    /\ turn_text_buffer' = <<>>
    /\ awaiting_final' = FALSE
    /\ ft_tasks' = CancelFinalTimeout(ft_tasks)
    /\ final_timeout_task' = HandleAfterCancel
    /\ SendJson("vad.speech_started", turn_id + 1, <<>>, <<>>)
    /\ UNCHANGED <<rx_llm, dc_state>>

\* _on_speech_stopped (lines 526-541)
OnSpeechStopped ==
    /\ in_speech' = FALSE
    /\ awaiting_final' = TRUE
    /\ SendJson("vad.speech_stopped", turn_id, <<>>, <<>>)
    /\ ft_tasks' = Append(ft_tasks, [status |-> "sleeping", turn |-> turn_id,
                                     text |-> <<>>])
    /\ final_timeout_task' = Len(ft_tasks) + 1
    /\ UNCHANGED <<turn_id, turn_text_buffer, rx_llm, dc_state>>

\* _on_stt_partial (lines 677-697)
OnSttPartial(text) ==
    IF Strip(text) = <<>>
      THEN UNCHANGED <<turn_id, in_speech, awaiting_final, turn_text_buffer,
                       final_timeout_task, ft_tasks, rx_llm, dc_state, ctrlVars>>
      ELSE IF in_speech \/ awaiting_final
        THEN /\ turn_text_buffer' = turn_text_buffer \o Strip(text)
             /\ SendJson("stt.partial", turn_id, turn_text_buffer \o Strip(text),
                         Strip(text))
             /\ UNCHANGED <<turn_id, in_speech, awaiting_final, final_timeout_task,
                            ft_tasks, rx_llm, dc_state>>
        ELSE UNCHANGED <<turn_id, in_speech, awaiting_final, turn_text_buffer,
                         final_timeout_task, ft_tasks, rx_llm, dc_state, ctrlVars>>

\* the final text of a turn (lines 715-717; lines 554-556 with an empty transcript)
FinalText(text_clean) ==
    IF text_clean # <<>> THEN text_clean
    ELSE IF Strip(turn_text_buffer) # <<>> THEN Strip(turn_text_buffer)
    ELSE Inaudible

\* mutant of OnSttFinal: without the test of awaiting_final (lines 705-707)
OnSttFinal_NoGuard(text) ==
    /\ ft_tasks' = CancelFinalTimeout(ft_tasks)
    /\ final_timeout_task' = HandleAfterCancel
    /\ awaiting_final' = FALSE
    /\ SendJson("stt.final", turn_id, FinalText(Strip(text)), <<>>)
    /\ rx_llm' = {[turn |-> turn_id, text |-> FinalText(Strip(text))]}
    /\ UNCHANGED <<turn_id, in_speech, turn_text_buffer, dc_state>>

\* _on_stt_final (lines 699-734), up to the call of the language model
OnSttFinal(text) ==
    IF ~awaiting_final
      THEN UNCHANGED <<turn_id, in_speech, awaiting_final, turn_text_buffer,
                       final_timeout_task, ft_tasks, rx_llm, dc_state, ctrlVars>>
      ELSE /\ ft_tasks' = CancelFinalTimeout(ft_tasks)
           /\ final_timeout_task' = HandleAfterCancel
           /\ awaiting_final' = FALSE
           /\ SendJson("stt.final", turn_id, FinalText(Strip(text)), <<>>)
           /\ rx_llm' = {[turn |-> turn_id, text |-> FinalText(Strip(text))]}
           /\ UNCHANGED <<turn_id, in_speech, turn_text_buffer, dc_state>>

\* the provider's input_audio_buffer.speech_started reaches its callback
\* (_stt_receiver_worker lines 663-669 registers it)
RecvSpeechStarted ==
    /\ Dispatch("speech_started", <<>>)
    /\ OnSpeechStarted
    /\ turn_deltas' = <<>>
    /\ UNCHANGED <<clientVars, segVars, encVars>>

\* the provider's input_audio_buffer.speech_stopped reaches its callback
RecvSpeechStopped ==
    /\ Dispatch("speech_stopped", <<>>)
    /\ OnSpeechStopped
    /\ UNCHANGED turn_deltas
    /\ UNCHANGED <<clientVars, segVars, encVars>>

\* _handle_event, a delta event (realtime_stt_client.py lines 374-377, 391-394)
RecvDelta(d) ==
    /\ Dispatch("delta", d)
    /\ turn_deltas' = turn_deltas \o d
    /\ IF d # <<>>
         THEN OnSttPartial(d)
         ELSE UNCHANGED <<turn_id, in_speech, awaiting_final, turn_text_buffer,
                          final_timeout_task, ft_tasks, rx_llm, dc_state, ctrlVars>>
    /\ UNCHANGED <<clientVars, segVars, encVars>>

\* mutant of RecvError: the error event is treated like a failure of the
\* receive loop, the client is marked disconnected
RecvError_Disconnects ==
    /\ Dispatch("error", <<>>)
    /\ OnSttError
    /\ connected' = FALSE
    /\ UNCHANGED <<turn_id, in_speech, awaiting_final, turn_text_buffer,
                   final_timeout_task, ft_tasks, rx_llm, dc_state, turn_deltas>>
    /\ UNCHANGED <<ws_state, appended_chunks, buffered_ms, pending_appends, cpc,
                   n_calls, last_call, wire_count, last_append_bytes,
                   last_commit_at, append_ret, sends_done, rx_state>>
    /\ UNCHANGED <<segVars, encVars>>

\* _handle_event, an error event (realtime_stt_client.py lines 440-448): the
\* provider's error is handed to on_error, _on_stt_error
RecvError ==
    /\ Dispatch("error", <<>>)
    /\ OnSttError
    /\ UNCHANGED <<turn_id, in_speech, awaiting_final, turn_text_buffer,
                   final_timeout_task, ft_tasks, rx_llm, dc_state, turn_deltas>>
    /\ UNCHANGED <<clientVars, segVars, encVars>>

\* mutant of RecvCompleted: the transcript is logged and on_final is not called
RecvCompleted_NoCallback(tr) ==
    /\ Dispatch("completed", tr)
    /\ UNCHANGED turn_deltas
    /\ UNCHANGED <<turn_id, in_speech, awaiting_final, turn_text_buffer,
                   final_timeout_task, ft_tasks, rx_llm, dc_state, ctrlVars>>
    /\ UNCHANGED <<clientVars, segVars, encVars>>

\* _handle_event, a completed event (realtime_stt_client.py lines 380-388, 397-405)
RecvCompleted(tr) ==
    /\ Dispatch("completed", tr)
    /\ UNCHANGED turn_deltas
    /\ IF tr # <<>>
         THEN OnSttFinal(tr)
         ELSE UNCHANGED <<turn_id, in_speech, awaiting_final, turn_text_buffer,
                          final_timeout_task, ft_tasks, rx_llm, dc_state, ctrlVars>>
    /\ UNCHANGED <<clientVars, segVars, encVars>>

\* the two delta types of _handle_event (lines 374, 391)
DeltaTypes ==
    {"transcription.delta", "conversation.item.input_audio_transcription.delta"}

\* the two completed types of _handle_event (lines 380, 397)
CompletedTypes ==
    {"transcription.completed",
     "conversation.item.input_audio_transcription.completed"}

\* the types _handle_event only logs (lines 408-437)
AckTypes ==
    {"input_audio_buffer.committed", "transcription_session.created",
     "session.created", "transcription_session.updated", "session.updated"}

\* the provider's VAD-boundary types, and a type the client does not know
OtherTypes ==
    {"input_audio_buffer.speech_started", "input_audio_buffer.speech_stopped",
     "response.unknown"}

EventTypes ==
    DeltaTypes \cup CompletedTypes \cup AckTypes \cup OtherTypes \cup {"error"}

NoCallback ==
    [cb |-> "none", arg |-> <<>>]

\* _handle_event (realtime_stt_client.py lines 368-459): the callback it
\* awaits for an event of the given type whose delta / transcript field is
\* field ("if delta and self._on_partial", "if transcript and self._on_final",
\* "if self._on_error"); every other branch only logs
DemuxCallback(type, field) ==
    IF type \in DeltaTypes
      THEN IF field # <<>> THEN [cb |-> "partial", arg |-> field] ELSE NoCallback
    ELSE IF type \in CompletedTypes
      THEN IF field # <<>> THEN [cb |-> "final", arg |-> field] ELSE NoCallback
    ELSE IF type = "error"
      THEN [cb |-> "error", arg |-> <<>>]
    ELSE NoCallback

\* the receive loop takes one message of the given type and awaits
\* _handle_event (lines 348-351), which awaits the callback it picks:
\* _on_stt_partial, _on_stt_final or _on_stt_error of the coordinator
HandleEvent(type, field) ==
    /\ Dispatch(type, field)
    /\ last_cb' = DemuxCallback(type, field)
    /\ UNCHANGED seg_cleanup
    /\ turn_deltas' = IF type \in DeltaTypes THEN turn_deltas \o field
                                              ELSE turn_deltas
    /\ LET c == DemuxCallback(type, field) IN
         IF c.cb = "partial" THEN OnSttPartial(c.arg)
         ELSE IF c.cb = "final" THEN OnSttFinal(c.arg)
         ELSE IF c.cb = "error"
           THEN /\ OnSttError
                /\ UNCHANGED <<turn_id, in_speech, awaiting_final, turn_text_buffer,
                               final_timeout_task, ft_tasks, rx_llm, dc_state>>
         ELSE UNCHANGED <<turn_id, in_speech, awaiting_final, turn_text_buffer,
                          final_timeout_task, ft_tasks, rx_llm, dc_state, ctrlVars>>
    /\ UNCHANGED <<enc_buffer, enc_ret, enc_fed, enc_out, enc_calls, micVars,
                   sessVars>>
    /\ UNCHANGED <<clientVars, segVars>>

\* the receive loop of a connected client, fed any messages
DemuxNext ==
    \/ \E type \in EventTypes, field \in Transcripts : HandleEvent(type, field)
    \/ DcOpen

\* _handle_final_timeout after its 2.0 s sleep (lines 548-569), task t
FinalTimeout(t) ==
    /\ t \in 1..Len(ft_tasks)
    /\ ft_tasks[t].status = "sleeping"
    /\ IF ~awaiting_final
         THEN /\ ft_tasks' = [ft_tasks EXCEPT ![t].status = "done"]
              /\ UNCHANGED <<awaiting_final, ctrlVars>>
         ELSE /\ SendJson("stt.final", turn_id, FinalText(<<>>), <<>>)
              /\ awaiting_final' = FALSE
              /\ ft_tasks' = [ft_tasks EXCEPT ![t] =
                                [status |-> "llm", turn |-> turn_id,
                                 text |-> FinalText(<<>>)]]
    /\ UNCHANGED <<turn_id, in_speech, turn_text_buffer, final_timeout_task, rx_llm,
                   dc_state, n_events, turn_deltas, last_event>>
    /\ UNCHANGED <<clientVars, segVars, encVars>>

\* _call_llm_for_turn (lines 580-609): the reply or the failure of the model
LlmMessage(ok, tid) ==
    IF ok THEN SendJson("llm.response", tid, <<"r">>, <<>>)
          ELSE SendJson("llm.error", tid, <<>>, <<>>)

\* _call_llm_for_turn ends inside the timeout task t (line 572)
TimeoutLlmDone(t, ok) ==
    /\ t \in 1..Len(ft_tasks)
    /\ ft_tasks[t].status = "llm"
    /\ LlmMessage(ok, ft_tasks[t].turn)
    /\ ft_tasks' = [ft_tasks EXCEPT ![t].status = "done"]
    /\ UNCHANGED <<turn_id, in_speech, awaiting_final, turn_text_buffer,
                   final_timeout_task, rx_llm, dc_state, n_events, turn_deltas, last_event>>
    /\ UNCHANGED <<clientVars, segVars, encVars>>

\* _call_llm_for_turn ends inside _on_stt_final (line 734)
RecvLlmDone(ok) ==
    /\ rx_llm # {}
    /\ \E c \in rx_llm : LlmMessage(ok, c.turn)
    /\ rx_llm' = {}
    /\ UNCHANGED <<turn_id, in_speech, awaiting_final, turn_text_buffer,
                   final_timeout_task, ft_tasks, dc_state, n_events, turn_deltas, last_event>>
    /\ UNCHANGED <<clientVars, segVars, encVars>>

TurnNext ==
    \/ DcOpen
    \/ DcClose
    \/ RecvSpeechStarted
    \/ RecvSpeechStopped
    \/ \E d \in Deltas : RecvDelta(d)
    \/ \E tr \in Transcripts : RecvCompleted(tr)
    \/ RecvError
    \/ \E t \in 1..MaxEvents : FinalTimeout(t)
    \/ \E t \in 1..MaxEvents, ok \in BOOLEAN : TimeoutLlmDone(t, ok)
    \/ \E ok \in BOOLEAN : RecvLlmDone(ok)

\* local-VAD mode: the session is configured with "turn_detection": None
\* (realtime_stt_client.py line 104), so the provider sends no speech_started /
\* speech_stopped; the segmenter's commits open the turns and the provider's
\* completed events reach _on_stt_final
LocalNext ==
    \/ \E sp \in BOOLEAN : ChunkIdle(sp, TRUE)
    \/ \E sp \in BOOLEAN : ChunkSpeech(sp, TRUE)
    \/ \E sp \in BOOLEAN : ChunkHangover(sp, TRUE)
    \/ \E t \in 1..MaxChunksIn : HangoverExpire(t)
    \/ \E t \in 1..MaxChunksIn, ok \in BOOLEAN : HangoverCommitDone(t, ok)
    \/ DcOpen
    \/ \E tr \in Transcripts : RecvCompleted(tr)
    \/ \E ok \in BOOLEAN : RecvLlmDone(ok)

(***************************************************************************)
(* AudioEncoder (audio_encoder.py): the 20 ms chunk accumulator            *)
(***************************************************************************)
\* audio_encoder.py:34  CHUNK_SAMPLES = 480
CHUNK_SAMPLES ==
    480

\* __init__ line 43: an empty buffer
EncInit ==
    /\ enc_buffer = <<>>
    /\ enc_ret = <<>>
    /\ enc_fed = 0
    /\ enc_out = <<>>
    /\ enc_calls = 0

\* the normalized samples of a frame of n samples; a sample is named by its
\* position in the stream fed so far
NormalizedFrame(n) ==
    [i \in 1..n |-> enc_fed + i]

\* mutant of ChunksOf: `if` in place of `while`, at most one chunk per call
ChunksOf_OnePerCall(buf) ==
    IF Len(buf) >= CHUNK_SAMPLES
      THEN <<SubSeq(buf, 1, CHUNK_SAMPLES)>>
      ELSE <<>>

RECURSIVE ChunksOf(_)
\* the while loop of lines 116-124: the chunks cut from the front of buf
ChunksOf(buf) ==
    IF Len(buf) >= CHUNK_SAMPLES
      THEN <<SubSeq(buf, 1, CHUNK_SAMPLES)>>
             \o ChunksOf(SubSeq(buf, CHUNK_SAMPLES + 1, Len(buf)))
      ELSE <<>>

\* what the buffer holds after the chunks cs were cut from buf (line 124)
RestOf(buf, cs) ==
    SubSeq(buf, Len(cs) * CHUNK_SAMPLES + 1, Len(buf))

\* process_frame (lines 112-124) on a frame whose normalized form has n samples
ProcessFrame(n) ==
    /\ enc_calls < MaxFrames
    /\ enc_calls' = enc_calls + 1
    /\ enc_fed' = enc_fed + n
    /\ LET buf == enc_buffer \o NormalizedFrame(n)
           cs == ChunksOf(buf)
       IN /\ enc_ret' = cs
          /\ enc_out' = enc_out \o cs
          /\ enc_buffer' = RestOf(buf, cs)
    /\ UNCHANGED <<clientVars, segVars, turnVars, micVars, sessVars, last_cb,
                   seg_cleanup>>

\* process_frame on a frame whose sample rate is neither 48000 nor 24000
\* (lines 104-106): nothing is normalized, nothing is buffered
ProcessFrameRejected ==
    /\ enc_calls < MaxFrames
    /\ enc_calls' = enc_calls + 1
    /\ enc_ret' = <<>>
    /\ UNCHANGED <<enc_buffer, enc_fed, enc_out>>
    /\ UNCHANGED <<clientVars, segVars, turnVars, micVars, sessVars, last_cb,
                   seg_cleanup>>

\* clear (lines 146-148): the buffer is emptied; the stream starts anew
EncClear ==
    /\ enc_buffer' = <<>>
    /\ enc_fed' = 0
    /\ enc_out' = <<>>
    /\ UNCHANGED <<enc_ret, enc_calls>>
    /\ UNCHANGED <<clientVars, segVars, turnVars, micVars, sessVars, last_cb,
                   seg_cleanup>>

\* WebRTCHandler.__init__ line 139 (mic_enabled = True) and a receiver that
\* has read no frame
IngestInit ==
    /\ mic_enabled = TRUE
    /\ last_mic_msg = "none"
    /\ frame_log = <<>>
    /\ ingest_sent = <<>>

\* the "type" fields of the DataChannel messages of the client
MicMessages ==
    {"mic.enabled", "mic.on", "mic.disabled", "mic.off", "mic.toggle", "other"}

\* the flag after a message of type m (lines 386-397)
MicAfter(m, flag) ==
    IF m \in {"mic.enabled", "mic.on"} THEN TRUE
    ELSE IF m \in {"mic.disabled", "mic.off"} THEN FALSE
    ELSE IF m = "mic.toggle" THEN ~flag
    ELSE flag

\* _handle_datachannel_message (lines 382-397); the tasks on_message creates
\* (line 370) run one after the other and never suspend
HandleDatachannelMessage(m) ==
    /\ mic_enabled' = MicAfter(m, mic_enabled)
    /\ last_mic_msg' = m
    /\ UNCHANGED <<frame_log, ingest_sent>>
    /\ UNCHANGED <<enc_buffer, enc_ret, enc_fed, enc_out, enc_calls>>
    /\ UNCHANGED <<clientVars, segVars, turnVars, sessVars, last_cb,
                   seg_cleanup>>

\* mutant of MicGate: the flag is not looked at
MicGate_Open(flag) ==
    TRUE

\* recv lines 52-53: "if self.mic_enabled_callback and not
\* self.mic_enabled_callback(): return frame", before process_frame
MicGate(flag) ==
    flag

\* lengths, in samples, of what process_frame makes of the frames recv()
\* reads (0: a frame process_frame turns into nothing)
IngestFrameSamples ==
    {0, 700}

\* AudioTrackReceiver.recv (lines 43-77) for a frame that process_frame turns
\* into n samples: the mic test, process_frame, the energy test (quiet: rms <
\* 0.001 and peak < 100, lines 62-65) and the appends of the chunks; the flag
\* is read once per frame, before process_frame, and not again between the
\* appends.  frame_log records the flag the frame was read under, whether the
\* frame went to process_frame, and the samples it added to the stream.
RecvFrame(n, quiet) ==
    /\ Len(frame_log) < MaxFrames
    /\ frame_log' = Append(frame_log,
                            [mic |-> mic_enabled,
                             fed |-> MicGate(mic_enabled),
                             n |-> IF MicGate(mic_enabled) THEN n ELSE 0])
    /\ IF ~MicGate(mic_enabled)
         THEN UNCHANGED <<enc_buffer, enc_ret, enc_fed, enc_out, enc_calls,
                          ingest_sent>>
         ELSE LET buf == enc_buffer \o NormalizedFrame(n)
                  cs == ChunksOf(buf)
              IN /\ enc_calls' = enc_calls + 1
                 /\ enc_fed' = enc_fed + n
                 /\ enc_ret' = cs
                 /\ enc_out' = enc_out \o cs
                 /\ enc_buffer' = RestOf(buf, cs)
                 /\ ingest_sent' = IF quiet THEN ingest_sent
                                             ELSE ingest_sent \o cs
    /\ UNCHANGED <<mic_enabled, last_mic_msg>>
    /\ UNCHANGED <<clientVars, segVars, turnVars, sessVars, last_cb,
                   seg_cleanup>>

\* WebRTCHandler.__init__ (lines 110-150): no worker task yet, a fresh peer
\* connection
SessInit ==
    /\ worker_state = "none"
    /\ monitor_state = "none"
    /\ pc_state = "open"
    /\ pc_close_calls = 0
    /\ cleanup_done = FALSE
    /\ last_cb = [cb |-> "none", arg |-> <<>>]

\* _setup_stt_pipeline (lines 474-501): the client is created and connected
\* and the worker task is created
SetupSttPipeline ==
    /\ worker_state = "none"
    /\ ~cleanup_done
    /\ ~connected /\ ws_state = "none"
    /\ connected' = TRUE
    /\ ws_state' = "open"
    /\ worker_state' = "created"
    /\ UNCHANGED <<appended_chunks, buffered_ms, pending_appends, cpc, n_calls,
                   last_call, wire_count, last_append_bytes, last_commit_at,
                   append_ret, sends_done, rx_state>>
    /\ UNCHANGED <<monitor_state, pc_state, pc_close_calls, cleanup_done>>
    /\ UNCHANGED <<enc_buffer, enc_ret, enc_fed, enc_out, enc_calls, micVars, last_cb,
                   seg_cleanup>>
    /\ UNCHANGED <<segVars, turnVars>>

\* _stt_receiver_worker (lines 642-675) runs: it creates the monitor task
\* (line 660) and awaits start_receiver_loop, which creates the receive task
\* and returns (realtime_stt_client.py lines 332-340); the worker then ends
\* through neither except branch, so monitor_task.cancel() is not reached
SttReceiverWorker ==
    /\ worker_state = "created"
    /\ worker_state' = "done"
    /\ monitor_state' = "running"
    /\ rx_state' = IF rx_state # "none" THEN rx_state
                   ELSE IF ws_state = "none" THEN "returned" ELSE "running"
    /\ UNCHANGED <<connected, ws_state, appended_chunks, buffered_ms,
                   pending_appends, cpc, n_calls, last_call, wire_count,
                   last_append_bytes, last_commit_at, append_ret, sends_done>>
    /\ UNCHANGED <<pc_state, pc_close_calls, cleanup_done>>
    /\ UNCHANGED <<enc_buffer, enc_ret, enc_fed, enc_out, enc_calls, micVars, last_cb,
                   seg_cleanup>>
    /\ UNCHANGED <<segVars, turnVars>>

\* the peer connection reaches connectionState "closed" by itself
PcClosed ==
    /\ pc_state = "open"
    /\ pc_state' = "closed"
    /\ UNCHANGED <<worker_state, monitor_state, pc_close_calls, cleanup_done>>
    /\ UNCHANGED <<enc_buffer, enc_ret, enc_fed, enc_out, enc_calls, micVars, last_cb,
                   seg_cleanup>>
    /\ UNCHANGED <<clientVars, segVars, turnVars>>

\* cleanup() (lines 744-795) with RealtimeSttClient.close()
\* (realtime_stt_client.py lines 117-135).  It cancels the task in
\* final_timeout_task, cancels receiver_task, closes the client (the receive
\* task, with a call of the language model running in it, is cancelled, the
\* socket closed) and calls pc.close() unless connectionState is "closed".
\* No handler runs between its awaits: it holds the turn lock while it awaits
\* the cancelled time-out task, and the tasks it awaits afterwards are done or
\* have just been cancelled.
Cleanup ==
    /\ ~cleanup_done
    /\ cleanup_done' = TRUE
    /\ ft_tasks' = CancelFinalTimeout(ft_tasks)
    /\ final_timeout_task' = HandleAfterCancel
    /\ worker_state' = IF worker_state = "created" THEN "cancelled" ELSE worker_state
    /\ IF worker_state = "none"
         THEN \* self.stt_client is None (line 770)
              UNCHANGED <<rx_state, rx_llm, ws_state, connected>>
         ELSE /\ rx_state' = IF rx_state = "running" THEN "cancelled" ELSE rx_state
              /\ rx_llm' = {}
              /\ ws_state' = "none"
              /\ connected' = FALSE
    /\ pc_close_calls' = IF pc_state # "closed" THEN pc_close_calls + 1
                                                ELSE pc_close_calls
    /\ pc_state' = "closed"
    /\ UNCHANGED monitor_state
    /\ UNCHANGED <<appended_chunks, buffered_ms, pending_appends, cpc, n_calls,
                   last_call, wire_count, last_append_bytes, last_commit_at,
                   append_ret, sends_done>>
    /\ UNCHANGED <<turn_id, in_speech, awaiting_final, turn_text_buffer, dc_state,
                   n_events, turn_deltas, last_event, ctrlVars>>
    /\ UNCHANGED <<enc_buffer, enc_ret, enc_fed, enc_out, enc_calls, micVars, last_cb,
                   seg_cleanup>>
    /\ UNCHANGED segVars

\* a session from its set-up to its teardown, with the provider's events and
\* the time-outs in between
TeardownNext ==
    \/ SetupSttPipeline
    \/ SttReceiverWorker
    \/ DcOpen
    \/ RecvSpeechStarted
    \/ RecvSpeechStopped
    \/ \E tr \in Transcripts : RecvCompleted(tr)
    \/ \E t \in 1..MaxEvents : FinalTimeout(t)
    \/ \E t \in 1..MaxEvents, ok \in BOOLEAN : TimeoutLlmDone(t, ok)
    \/ \E ok \in BOOLEAN : RecvLlmDone(ok)
    \/ RecvLoopFailed
    \/ PcClosed
    \/ Cleanup

IngestNext ==
    \/ \E m \in MicMessages : HandleDatachannelMessage(m)
    \/ \E n \in IngestFrameSamples, quiet \in BOOLEAN : RecvFrame(n, quiet)

EncNext ==
    \/ ProcessFrameRejected
    \/ \E n \in FrameSamples : ProcessFrame(n)
    \/ EncClear

\* the segmenter built with its default arguments (hangover_ms = 500, no
\* on_get_buffered_ms), for the specifications of the other components
SegDefaultInit ==
    SegInit({500}, {FALSE})

InitClient ==
    ClientInit /\ SegDefaultInit /\ TurnInit /\ EncInit /\ IngestInit /\ SessInit

InitSeg ==
    ClientInit /\ SegInit(HangoverConfigs, BOOLEAN) /\ TurnInit /\ EncInit /\ IngestInit /\ SessInit

SpecClient ==
    InitClient /\ [][ClientNext]_vars

\* the client once _setup_stt_pipeline (webrtc_handler.py lines 486-497) has
\* connected it and started its receive loop, with five chunks appended
ClientUpInit ==
    /\ connected = TRUE
    /\ ws_state = "open"
    /\ rx_state = "running"
    /\ appended_chunks = 5
    /\ buffered_ms = BufferedMsOf(appended_chunks)
    /\ sends_done = appended_chunks
    /\ pending_appends = 0
    /\ cpc = [p \in Procs |-> "idle"]
    /\ n_calls = 0
    /\ last_call = [op |-> "none", bytes |-> 0]
    /\ wire_count = 0
    /\ last_append_bytes = {}
    /\ last_commit_at = {}
    /\ append_ret = "none"

InitTurn ==
    ClientUpInit /\ SegDefaultInit /\ TurnInit /\ EncInit /\ IngestInit /\ SessInit

InitEnc ==
    ClientInit /\ SegDefaultInit /\ TurnInit /\ EncInit /\ IngestInit /\ SessInit

SpecSeg ==
    InitSeg /\ [][SegNext]_vars

\* the event loop runs every task that is ready: a hangover task whose sleep
\* has ended takes the lock when it is free, and an awaited on_commit ends
SegFairness ==
    /\ WF_vars(\E t \in 1..MaxChunksIn : HangoverExpire(t))
    /\ WF_vars(\E t \in 1..MaxChunksIn, ok \in BOOLEAN : HangoverCommitDone(t, ok))

SpecSegLive ==
    SpecSeg /\ SegFairness

\* cleanup is a coroutine of the same event loop: it gets the lock once the
\* lock is free (asyncio.Lock wakes its waiters in order), and the task it
\* cancelled and awaits ends at the event loop's next turn
SegCleanupFairness ==
    /\ SegFairness
    /\ WF_vars(SegCleanupEnter)
    /\ WF_vars(SegCleanupDone)

\* a segmenter with the default hangover, with or without on_get_buffered_ms
InitSegCleanup ==
    ClientInit /\ SegInit({500}, BOOLEAN) /\ TurnInit /\ EncInit /\ IngestInit /\ SessInit

SpecSegCleanup ==
    InitSegCleanup /\ [][SegCleanupNext]_vars /\ SegCleanupFairness

SpecTurn ==
    InitTurn /\ [][TurnNext]_vars

\* the transcript of the audio of turn T: the turns' utterances differ
Utterance(T) ==
    <<ToString(T)>>

\* the provider has sent speech_stopped for its T-th speech segment
ProviderStopped(T) ==
    \E i \in 1..Len(vad_log) :
        /\ vad_log[i] = "vad.speech_stopped"
        /\ Cardinality({j \in 1..i : vad_log[j] = "vad.speech_started"}) = T

\* the provider's completed event for the audio of turn T reaches _handle_event
\* (realtime_stt_client.py lines 380-388, 397-405) after that turn's
\* speech_stopped; the event's item_id is not read, only its transcript
RecvFinalOfTurn(T) ==
    /\ ProviderStopped(T)
    /\ RecvCompleted(Utterance(T))

\* server-VAD turns in which every provider final transcribes one of the
\* turns the provider has closed
AttribNext ==
    \/ DcOpen
    \/ RecvSpeechStarted
    \/ RecvSpeechStopped
    \/ \E T \in 1..MaxEvents : RecvFinalOfTurn(T)
    \/ \E t \in 1..MaxEvents : FinalTimeout(t)
    \/ \E t \in 1..MaxEvents, ok \in BOOLEAN : TimeoutLlmDone(t, ok)
    \/ \E ok \in BOOLEAN : RecvLlmDone(ok)

SpecAttrib ==
    InitTurn /\ [][AttribNext]_vars

\* server-VAD turns with the language-model calls: the provider's turn events
\* and finals, the final-timeout tasks and the two places _call_llm_for_turn
\* is awaited (lines 572, 734)
LlmNext ==
    \/ DcOpen
    \/ RecvSpeechStarted
    \/ RecvSpeechStopped
    \/ \E tr \in Transcripts : RecvCompleted(tr)
    \/ \E t \in 1..MaxEvents : FinalTimeout(t)
    \/ \E t \in 1..MaxEvents, ok \in BOOLEAN : TimeoutLlmDone(t, ok)
    \/ \E ok \in BOOLEAN : RecvLlmDone(ok)

\* the event loop runs every task that is ready: a final-timeout task whose
\* 2.0 s sleep ended goes on (line 548), and an awaited _call_llm_for_turn ends
\* with the reply or with an exception (lines 591-609)
TurnFairness ==
    /\ WF_vars(\E t \in 1..MaxEvents : FinalTimeout(t))
    /\ WF_vars(\E t \in 1..MaxEvents, ok \in BOOLEAN : TimeoutLlmDone(t, ok))
    /\ WF_vars(\E ok \in BOOLEAN : RecvLlmDone(ok))

SpecTurnLive ==
    InitTurn /\ [][LlmNext]_vars /\ TurnFairness

SpecEnc ==
    InitEnc /\ [][EncNext]_vars

\* a connected client, and a segmenter given on_get_buffered_ms
InitLocal ==
    ClientUpInit /\ SegInit({500}, {TRUE}) /\ TurnInit /\ EncInit /\ IngestInit /\ SessInit

SpecLocal ==
    InitLocal /\ [][LocalNext]_vars

SpecDemux ==
    InitTurn /\ [][DemuxNext]_vars

InitTeardown ==
    ClientInit /\ SegDefaultInit /\ TurnInit /\ EncInit /\ IngestInit /\ SessInit

SpecTeardown ==
    InitTeardown /\ [][TeardownNext]_vars

InitIngest ==
    ClientInit /\ SegDefaultInit /\ TurnInit /\ EncInit /\ IngestInit /\ SessInit

SpecIngest ==
    InitIngest /\ [][IngestNext]_vars

\* the ingest path of a session whose client _setup_stt_pipeline has connected
InitIngestUp ==
    ClientUpInit /\ SegDefaultInit /\ TurnInit /\ EncInit /\ IngestInit /\ SessInit

SpecIngestUp ==
    InitIngestUp /\ [][IngestNext]_vars

(***************************************************************************)
(* Claims about RealtimeSttClient (checked under SpecClient)               *)
(***************************************************************************)
\* a step in which append_audio is called with a payload that is not 960 bytes
BadSizeAppendStep ==
    /\ n_calls' = n_calls + 1
    /\ last_call'.op = "append"
    /\ last_call'.bytes # 960

\* C1: every input_audio_buffer.append message that append_audio writes to the
\* socket carries exactly 960 bytes of PCM, and a call with a payload of any
\* other length writes nothing to the socket.
C1_AppendIs960Bytes ==
    /\ [](\A n \in last_append_bytes : n = 960)
    /\ [][BadSizeAppendStep =>
            UNCHANGED <<wire_count, last_append_bytes, last_commit_at>>]_vars

\* C1 witness: a 960-byte append is on the wire and a 959-byte call was refused
\* while the client was connected.
C1_Witness ==
    /\ last_append_bytes = {960}
    /\ last_call = [op |-> "append", bytes |-> 959]
    /\ connected
    /\ ws_state = "open"

\* C2: an input_audio_buffer.commit message is written only if, at the moment
\* it is written (after the flush wait inside commit), buffered_ms >= 100 and
\* fewer than 5 appends are in flight.  (The statement of the claim; the code
\* tests the counters before the flush wait and not again after it.)
C2_CommitOnlyWhenBuffered ==
    \A c \in last_commit_at : c.buffered_ms >= 100 /\ c.pending < 5

\* a step in which append_audio is called on a client that is not connected
DisconnectedAppendStep ==
    /\ n_calls' = n_calls + 1
    /\ last_call'.op = "append"
    /\ ~connected

\* a step in which the send of a well-sized append meets a closed socket
SocketClosedAppendStep ==
    \/ /\ n_calls' = n_calls + 1
       /\ last_call' = [op |-> "append", bytes |-> 960]
       /\ connected
       /\ ws_state = "closed"
    \/ /\ ws_state = "closed"
       /\ \E p \in Procs : cpc[p] = "append_sending" /\ cpc'[p] = "idle"

\* C11: an append_audio call on a disconnected client returns False without
\* raising, writes nothing and leaves appended_chunks, buffered_ms and the
\* in-flight count as they were; a socket-closed error during the send marks
\* the client disconnected and returns False without raising.
C11_DisconnectedAppendFails ==
    /\ [][DisconnectedAppendStep =>
            /\ append_ret' = "False"
            /\ UNCHANGED <<appended_chunks, buffered_ms, pending_appends,
                           wire_count>>]_vars
    /\ [][SocketClosedAppendStep =>
            /\ append_ret' = "False"
            /\ connected' = FALSE]_vars

\* C11 witness: after completed appends the socket was closed, a send met the
\* closed socket, and a further append was called on the disconnected client.
C11_Witness ==
    /\ ~connected
    /\ ws_state = "closed"
    /\ appended_chunks > 0
    /\ last_call.op = "append"
    /\ append_ret = "False"
    /\ n_calls >= 3

\* a step in which append_audio is called on a connected client with a payload
\* that is not 960 bytes
BadSizeConnectedStep ==
    /\ BadSizeAppendStep
    /\ connected
    /\ ws_state = "open"

\* C12: append_audio with a payload whose length is not 960 bytes raises to
\* the caller and increments no counter (appended_chunks, buffered_ms,
\* in-flight).
C12_BadSizeRaises ==
    [][BadSizeConnectedStep =>
         /\ append_ret' = "raise"
         /\ UNCHANGED <<appended_chunks, buffered_ms, pending_appends>>]_vars

\* C12, the part that holds: such a call increments no counter.
C12_BadSizeCountsNothing ==
    [][BadSizeConnectedStep =>
         UNCHANGED <<appended_chunks, buffered_ms, pending_appends>>]_vars

\* a step in which the send of an append completes
AppendSendCompletedStep ==
    /\ ws_state = "open"
    /\ append_ret' = "True"
    /\ \E p \in Procs : cpc[p] = "append_sending" /\ cpc'[p] = "idle"

\* C18: in every reachable state buffered_ms is 20 times the number of appends
\* whose send completed since the last commit or clear, and buffered_ms grows
\* only in a step that completes the send of an append (never for an append in
\* flight or one whose send failed).
C18_BufferedCountsCompletedSends ==
    /\ [](buffered_ms = 20 * sends_done)
    /\ [][buffered_ms' > buffered_ms => AppendSendCompletedStep]_vars

\* C18 witness: after a commit one append completed and another is in flight.
C18_Witness ==
    /\ last_commit_at # {}
    /\ sends_done = 1
    /\ buffered_ms = 20
    /\ pending_appends = 1
    /\ \E p \in Procs : cpc[p] = "append_sending"

\* a step in which a commit call ends after its message was sent
CommitSucceededStep ==
    /\ ws_state = "open"
    /\ \E p \in Procs : cpc[p] = "commit_sending" /\ cpc'[p] = "idle"

\* C19: after a successful commit all three counters are reset:
\* appended_chunks = 0, buffered_ms = 0 and the in-flight count = 0.
C19_CommitResetsAllCounters ==
    [][CommitSucceededStep =>
         /\ appended_chunks' = 0
         /\ buffered_ms' = 0
         /\ pending_appends' = 0]_vars

\* C19, the part that holds: appended_chunks and buffered_ms are reset.
C19_CommitResetsBuffered ==
    [][CommitSucceededStep => appended_chunks' = 0 /\ buffered_ms' = 0]_vars

\* a step in which a clear call ends
ClearFinishedStep ==
    \/ /\ n_calls' = n_calls + 1
       /\ last_call'.op = "clear"
       /\ cpc' = cpc
    \/ \E p \in Procs : cpc[p] = "clear_sending" /\ cpc'[p] = "idle"

\* C20: every call of clear zeroes appended_chunks, buffered_ms and the
\* in-flight count, also when the client is disconnected or the send of
\* input_audio_buffer.clear fails.
C20_ClearZeroesAlways ==
    [][ClearFinishedStep =>
         /\ appended_chunks' = 0
         /\ buffered_ms' = 0
         /\ pending_appends' = 0]_vars

\* C20, the part that holds: a clear whose message was sent zeroes the counters.
C20_SentClearZeroes ==
    [][(ClearFinishedStep /\ ws_state = "open" /\ connected) =>
         /\ appended_chunks' = 0
         /\ buffered_ms' = 0
         /\ pending_appends' = 0]_vars

\* no task is inside append_audio
NoAppendInProgress ==
    \A p \in Procs : cpc[p] # "append_sending"

\* C35: whenever no append_audio call is in progress the in-flight count
\* (_pending_appends) is 0; an append whose send fails leaves the count where
\* it was before the call.
C35_NoAppendNothingInFlight ==
    NoAppendInProgress => pending_appends = 0

(***************************************************************************)
(* Claims about VADSegmenter (checked under SpecSeg)                       *)
(***************************************************************************)
\* C4: for every segment the segmenter opens, on_clear is invoked at most once
\* between the segment's IDLE->SPEECH transition and the next return to IDLE.
C4_ClearAtMostOncePerSegment ==
    /\ seg_clears <= 1
    /\ cb_clear <= segment_id

\* C4 witness: a segment that went through a resume and then closed by expiry,
\* with its single clear.
C4_Witness ==
    /\ seg_state = "IDLE"
    /\ n_expired = 1
    /\ n_tasks = 2
    /\ seg_clears = 1
    /\ cb_clear = 1

\* a step in which process_chunk handles a speech chunk while HANGOVER holds
\* (the hangover task has not run its check)
ResumeStep ==
    /\ seg_state = "HANGOVER"
    /\ n_chunks_in' = n_chunks_in + 1
    /\ n_speech_in' = n_speech_in + 1

\* C5: at most one segment is open at a time; a speech chunk arriving in
\* HANGOVER returns the state to SPEECH with the same segment id, no clear, the
\* per-segment counter not reset, the pending timer cancelled and no commit for
\* the interrupted gap (a commit only ever comes from the timer started at the
\* last speech end).
C5_ResumeKeepsSegment ==
    /\ [](segment_id = n_expired + (IF seg_state = "IDLE" THEN 0 ELSE 1))
    /\ [](\A i \in 1..Len(commit_log) : commit_log[i].task = commit_log[i].speech_end)
    /\ [][ResumeStep =>
            /\ seg_state' = "SPEECH"
            /\ segment_id' = segment_id
            /\ cb_clear' = cb_clear
            /\ seg_appended_chunks' >= seg_appended_chunks
            /\ live_tasks' = {}
            /\ hangover_task' = 0
            /\ commit_log' = commit_log
            /\ n_expired' = n_expired]_vars

\* C5 witness: speech resumed during the hangover of segment 1.
C5_Witness ==
    /\ seg_state = "SPEECH"
    /\ segment_id = 1
    /\ n_tasks = 1
    /\ live_tasks = {}
    /\ seg_appended_chunks = 3
    /\ commit_log = <<>>

\* C6: a run of speech (at least 100 ms buffered) followed by non-speech that
\* lasts the hangover H, the configured value clamped to [300, 800] ms, opens
\* exactly one segment and issues exactly one commit, and that commit is issued
\* by the expiry of the hangover timer started at the speech end, not before.
C6_OneCommitAtHangoverExpiry ==
    /\ segment_id = n_utter
    /\ Len(commit_log) = n_expired - n_skipped
    /\ utter_open => \A i \in 1..Len(commit_log) : commit_log[i].seg < segment_id
    /\ \A i \in 1..Len(commit_log) :
         /\ commit_log[i].task = commit_log[i].speech_end
         /\ commit_log[i].buffered >= 100
         /\ commit_log[i].timer_ms >= 300
         /\ commit_log[i].timer_ms <= 800
         /\ (hangover_cfg >= 300 /\ hangover_cfg <= 800)
               => commit_log[i].timer_ms = hangover_cfg
    /\ (n_utter = 1 /\ ~utter_open /\ n_skipped = 0)
          => (segment_id = 1 /\ Len(commit_log) = 1 /\ commit_log[1].seg = 1)

\* C6 witness: one utterance of five chunks (100 ms by the segmenter's own
\* count) closed by the expiry of its hangover timer with one commit.
C6_Witness ==
    /\ ~has_get_buffered
    /\ n_utter = 1
    /\ ~utter_open
    /\ seg_state = "IDLE"
    /\ Len(commit_log) = 1
    /\ commit_log[1].buffered >= 100

C8_SilenceOpensNothing ==
    n_speech_in = 0
       => /\ seg_state = "IDLE"
          /\ segment_id = 0
          /\ cb_append = 0
          /\ cb_clear = 0
          /\ commit_log = <<>>
          /\ n_tasks = 0

\* C8 witness: several chunks of silence were fed and nothing else.
C8_Witness ==
    /\ n_speech_in = 0
    /\ n_chunks_in >= 4

\* positions of the on_append invocations in the record of callbacks
AppendIdx ==
    {i \in 1..Len(cb_log) : cb_log[i].cb = "append"}

\* positions of the on_clear invocations
ClearIdx ==
    {i \in 1..Len(cb_log) : cb_log[i].cb = "clear"}

\* positions of the on_commit invocations
CommitIdx ==
    {i \in 1..Len(cb_log) : cb_log[i].cb = "commit"}

\* the open (or latest) segment was preceded by a non-speech chunk fed in IDLE
SilencePrecededSegment ==
    /\ segment_id >= 1
    /\ (seg_open_chunk - 1) \in idle_dropped

C17_CommitBeforeNextAppend ==
    /\ seg_lock # {} => cb_log # <<>> /\ cb_log[Len(cb_log)].cb = "commit"
    /\ \A i \in AppendIdx, j \in CommitIdx :
          /\ i < j => cb_log[i].seg <= cb_log[j].seg
          /\ j < i => cb_log[i].seg > cb_log[j].seg
    /\ \A i \in AppendIdx, j \in AppendIdx :
          i < j => /\ cb_log[i].chunk < cb_log[j].chunk
                   /\ cb_log[i].seg <= cb_log[j].seg

\* C17 witness: segment 1 was committed, segment 2 received appends, and the
\* hangover task of segment 2 is inside on_commit, holding the lock.
C17_Witness ==
    /\ seg_lock # {}
    /\ segment_id = 2
    /\ Len(commit_log) = 1
    /\ \E i \in AppendIdx : cb_log[i].seg = 2

\* a step in which process_chunk handles a non-speech chunk in SPEECH
SpeechEndStep ==
    /\ seg_state = "SPEECH"
    /\ n_chunks_in' = n_chunks_in + 1
    /\ n_speech_in' = n_speech_in

\* a step in which process_chunk handles a speech chunk in IDLE
SegmentOpenStep ==
    /\ seg_state = "IDLE"
    /\ n_chunks_in' = n_chunks_in + 1
    /\ n_speech_in' = n_speech_in + 1

\* C22, safety part: whatever the callbacks do, a non-speech chunk moves SPEECH
\* to HANGOVER with a hangover task started, HANGOVER always has its live
\* task (or that task is inside on_commit), and a speech chunk in IDLE opens
\* a new segment.
C22_NeverStuckSafety ==
    /\ [](seg_state = "HANGOVER" => hangover_task \in live_tasks)
    /\ [][SpeechEndStep => seg_state' = "HANGOVER"
                             /\ hangover_task' \in live_tasks']_vars
    /\ [][SegmentOpenStep => seg_state' = "SPEECH"
                               /\ segment_id' = segment_id + 1]_vars

\* C22, liveness part: HANGOVER always ends, in IDLE through the expiry of the
\* hangover timer unless speech resumes first.
C22_HangoverAlwaysEnds ==
    (seg_state = "HANGOVER") ~> (seg_state \in {"IDLE", "SPEECH"})

\* C22: when the append and commit callbacks fail or raise (the provider
\* socket has closed while a segment is open), the segmenter is never left
\* stuck in SPEECH or HANGOVER: non-speech chunks take it to HANGOVER, the
\* expiry of the hangover timer takes it to IDLE, and it accepts a new
\* segment there.
C22_NeverStuck ==
    C22_NeverStuckSafety /\ C22_HangoverAlwaysEnds

\* C22 witness: on_append raised in segment 1 and its on_commit raised, the
\* segment was closed by the expiry all the same, and segment 2 is open.
C22_Witness ==
    /\ 1 \in seg_failed
    /\ Len(commit_log) = 1
    /\ ~commit_log[1].ok
    /\ segment_id = 2
    /\ seg_state = "SPEECH"


\* ---------------------------------------------------------------------------
\* Claims about the turn coordinator (SpecTurn)
\* ---------------------------------------------------------------------------

\* C3: for any sequence of provider events and time-outs the coordinator
\* emits at most one stt.final message per turn id (the ids of opened turns,
\* 1 and above).
C3_AtMostOneFinalPerTurn ==
    \A T \in DOMAIN n_final : T >= 1 => n_final[T] <= 1

\* C9: for every sequence of provider events the vad.speech_started and
\* vad.speech_stopped messages emitted in a session strictly alternate,
\* starting with vad.speech_started.
C9_VadMessagesAlternate ==
    \A i \in 1..Len(vad_log) :
        vad_log[i] = IF i % 2 = 1 THEN "vad.speech_started"
                                  ELSE "vad.speech_stopped"

\* a step that emits an stt.final message
FinalEmittedStep ==
    /\ n_msgs' = n_msgs + 1
    /\ \E m \in last_msg' : m.type = "stt.final"

\* C10, first part: once speech_started has opened turn T+1 no turn awaits a
\* final (awaiting_final is cleared) until the next speech_stopped.
C10_AwaitingCleared ==
    in_speech => ~awaiting_final

\* C10, second part: no final-timeout of an earlier turn T >= 1 is still
\* outstanding once a later turn has been opened.
C10_TimeoutOfClosedTurnCancelled ==
    \A t \in 1..Len(ft_tasks) :
        (ft_tasks[t].turn >= 1 /\ ft_tasks[t].status = "sleeping")
            => ft_tasks[t].turn = turn_id

\* C10, third part: every stt.final carries the id of the turn that is open
\* when it is emitted, so none carries the id T after turn T+1 was opened.
C10_NoFinalForClosedTurn ==
    [][FinalEmittedStep => \E m \in last_msg' : m.turn_id = turn_id']_vars

\* C10: at most one turn awaits a final at a time; when speech_started opens
\* turn T+1, turn T is closed: awaiting_final is cleared, the outstanding
\* final-timeout of turn T is cancelled, and no stt.final with turn id T is
\* emitted afterwards.
C10_NewTurnClosesPrevious ==
    /\ [](C10_AwaitingCleared /\ C10_TimeoutOfClosedTurnCancelled)
    /\ C10_NoFinalForClosedTurn

\* a step in which a final-timeout task emits an stt.final message
TimeoutFinalStep ==
    /\ FinalEmittedStep
    /\ \E t \in 1..Len(ft_tasks) :
          ft_tasks[t].status = "sleeping" /\ ft_tasks'[t].status = "llm"

\* the provider's events so far were speech_started, deltas, speech_stopped in
\* well-formed turns, and the open turn has had no final yet
AwaitingAfterWellFormedTurn ==
    /\ C9_VadMessagesAlternate
    /\ vad_log # <<>>
    /\ vad_log[Len(vad_log)] = "vad.speech_stopped"
    /\ n_final[turn_id] = 0

\* the text the claim expects of a turn: the deltas as sent, or the sentinel
ExpectedTimeoutText ==
    IF Strip(turn_deltas) = <<>> THEN Inaudible ELSE Strip(turn_deltas)

\* C13: when speech_started, deltas d1..dn and speech_stopped arrived and the
\* 2.0 s final-timeout expires with no final, exactly one stt.final is
\* emitted; its text is the in-order concatenation of the deltas as the
\* provider sent them (compared here without leading and trailing blanks), or
\* the sentinel [inaudible] when there is none, and its turn_id is the one
\* opened at that speech_started.
C13_TimeoutFinalIsConcatenation ==
    [][(TimeoutFinalStep /\ AwaitingAfterWellFormedTurn) =>
         /\ n_final'[turn_id] = 1
         /\ \E m \in last_msg' :
               m.turn_id = turn_id /\ m.text = ExpectedTimeoutText]_vars

\* C13, the part that holds: one stt.final, carrying the id of the turn opened
\* at the speech_started.
C13_TimeoutFinalOnceForTurn ==
    [][(TimeoutFinalStep /\ AwaitingAfterWellFormedTurn) =>
         /\ n_final'[turn_id] = 1
         /\ \E m \in last_msg' : m.turn_id = turn_id /\ turn_id >= 1]_vars

\* a hangover expiry that finds too little buffered and skips the commit
ExpirySkipStep ==
    n_skipped' = n_skipped + 1

\* a hangover expiry whose on_commit call has ended
ExpiryCommitEndStep ==
    Len(commit_log') = Len(commit_log) + 1

\* the segmenter is back to IDLE with its per-segment counter at 0 and no
\* timer handle
SegmentClosed ==
    /\ seg_state' = "IDLE"
    /\ seg_appended_chunks' = 0
    /\ hangover_task' = 0

\* C31: when the hangover timer expires in HANGOVER with less than
\* min_commit_ms buffered, on_commit is not invoked (every commit, running or
\* ended, saw at least min_commit_ms); after the skip as after the commit
\* the segmenter is IDLE, its per-segment chunk counter is 0 and the timer
\* handle is dropped.
C31_ShortSegmentNotCommitted ==
    /\ [](/\ \A h \in seg_lock : h.buffered >= min_commit_ms
           /\ \A i \in 1..Len(commit_log) : commit_log[i].buffered >= min_commit_ms)
    /\ [][ExpirySkipStep => (UNCHANGED <<cb_log, commit_log>> /\ SegmentClosed)]_vars
    /\ [][ExpiryCommitEndStep => SegmentClosed]_vars

\* C31 witness: one hangover expired with too little buffered and was
\* skipped, another committed, and the segmenter is IDLE after both.
C31_Witness ==
    /\ n_skipped = 1
    /\ Len(commit_log) = 1
    /\ n_expired = 2
    /\ seg_state = "IDLE" /\ seg_appended_chunks = 0 /\ hangover_task = 0

\* a step in which the receive loop dispatches a provider event of type ty
EventStep(ty) ==
    /\ n_events' = n_events + 1
    /\ last_event'.type = ty

\* the final-timeout tasks still in their 2.0 s sleep
PendingTimeouts ==
    {t \in 1..Len(ft_tasks) : ft_tasks[t].status = "sleeping"}

\* C34: final-timeout tasks are cancelled by replacement: at any time at most
\* one final-timeout task is pending in a session, for any sequence of
\* speech_started and speech_stopped events, repeated speech_stopped
\* included.
C34_OnePendingTimeout ==
    Cardinality(PendingTimeouts) <= 1

\* C34, the part that holds: a pending final-timeout task other than the one
\* in final_timeout_task can only come from a repeated speech_stopped;
\* speech_started cancels the task of the handle and clears the handle.
C34_StartCancelsHandle ==
    [][EventStep("speech_started") =>
         \A t \in PendingTimeouts :
             t = final_timeout_task
                => (ft_tasks'[t].status = "cancelled" /\ final_timeout_task' = 0)]_vars

\* C24: a provider final (a completed event) that arrives while awaiting_final
\* is false is dropped silently: no control message is emitted (so no
\* stt.final), the language model is not called, and turn_id, the partial
\* buffer, awaiting_final and the final-timeout handle and tasks stay as they
\* were.
C24_UnawaitedFinalDropped ==
    [][(EventStep("completed") /\ ~awaiting_final) =>
         /\ UNCHANGED ctrlVars
         /\ rx_llm' = {}
         /\ UNCHANGED <<turn_id, turn_text_buffer, awaiting_final, in_speech,
                        final_timeout_task, ft_tasks>>]_vars

\* C24 witness: a completed event with a transcript was dispatched during
\* speech, when no final was awaited, and the last control message is still
\* the vad.speech_started of the open turn.
C24_Witness ==
    /\ last_event = [type |-> "completed", arg |-> <<"t">>]
    /\ in_speech /\ ~awaiting_final
    /\ turn_id = 1
    /\ \E m \in last_msg : m.type = "vad.speech_started" /\ m.ok
    /\ rx_llm = {}

\* C27: a provider event of type error makes the coordinator emit exactly one
\* stt.error message; the client stays connected with its receive loop
\* running and its counters as they were, and turn_id, awaiting_final,
\* in_speech, the partial buffer and the final-timeout are unchanged.
C27_ProviderErrorOnlyReported ==
    [][EventStep("error") =>
         /\ n_msgs' = n_msgs + 1
         /\ \E m \in last_msg' : m.type = "stt.error"
         /\ UNCHANGED <<connected, ws_state, rx_state, appended_chunks,
                        buffered_ms, pending_appends>>
         /\ UNCHANGED <<turn_id, awaiting_final, in_speech, turn_text_buffer,
                        final_timeout_task, ft_tasks, rx_llm>>]_vars

\* C27 witness: an error event arrived while a turn with partial text awaited
\* its final; the stt.error went out on the open channel and the client is
\* connected with its counters standing.
C27_Witness ==
    /\ last_event.type = "error"
    /\ \E m \in last_msg : m.type = "stt.error" /\ m.ok
    /\ connected /\ rx_state = "running"
    /\ appended_chunks > 0 /\ buffered_ms > 0
    /\ awaiting_final /\ turn_id = 1 /\ turn_text_buffer # <<>>

\* the control messages that carry a turn_id
TurnMessageTypes ==
    {"vad.speech_started", "vad.speech_stopped", "stt.partial", "stt.final",
     "llm.response", "llm.error"}

\* C28, first part: turn_id never decreases and moves by one at a time, and
\* each speech_started, which opens a turn, raises it by exactly one.
C28_TurnIdGrowsByOne ==
    [][/\ turn_id' \in {turn_id, turn_id + 1}
       /\ EventStep("speech_started") => turn_id' = turn_id + 1]_vars

\* C28, second part: every turn_id carried by a vad.*, stt.partial, stt.final
\* or llm.* message is at least 1.
C28_MessagesCarryOpenedTurn ==
    \A m \in last_msg : m.type \in TurnMessageTypes => m.turn_id >= 1

\* C28: turn ids are assigned 1, 2, ... in order: turn_id never decreases,
\* grows by exactly one per opened turn, and every turn_id carried by a
\* control message (vad.*, stt.partial, stt.final, llm.*) is at least 1, for
\* any sequence of provider events.
C28_TurnIdsFromOne ==
    /\ C28_TurnIdGrowsByOne
    /\ []C28_MessagesCarryOpenedTurn

\* the step appends x to the partial buffer and emits one stt.partial of the
\* open turn with delta x and the new running total
PartialAppended(x) ==
    /\ turn_text_buffer' = turn_text_buffer \o x
    /\ n_msgs' = n_msgs + 1
    /\ \E m \in last_msg' :
          /\ m.type = "stt.partial" /\ m.turn_id = turn_id
          /\ m.delta = x /\ m.text = turn_text_buffer \o x

\* the step emits nothing and leaves the partial buffer alone
PartialDropped ==
    /\ UNCHANGED turn_text_buffer
    /\ UNCHANGED ctrlVars

\* C29: a partial callback with delta d appends d to the partial buffer, at
\* its end (so the deltas of a turn are accumulated in the order the provider
\* sent them), and emits stt.partial with the delta d and the running total,
\* only while the turn is in speech or awaiting its final; in any other state
\* the delta is dropped: nothing is emitted, the buffer does not change.
C29_PartialAppendedWhileActive ==
    [][EventStep("delta") =>
         IF in_speech \/ awaiting_final
           THEN PartialAppended(last_event'.arg)
           ELSE PartialDropped]_vars

\* C29, the part that holds: the same with the delta stripped of its leading
\* and trailing blanks, a delta of blanks only being dropped in every state.
C29_StrippedPartialWhileActive ==
    [][EventStep("delta") =>
         IF (in_speech \/ awaiting_final) /\ Strip(last_event'.arg) # <<>>
           THEN PartialAppended(Strip(last_event'.arg))
           ELSE PartialDropped]_vars

\* the text the claim gives the stt.final of a completed event with
\* transcript tr: the transcript, else the partial buffer (the sentinel
\* standing for an empty buffer)
ExpectedFinalText(tr) ==
    IF tr # <<>> THEN tr
    ELSE IF turn_text_buffer # <<>> THEN turn_text_buffer
    ELSE Inaudible

\* the step cancels the final-timeout, emits exactly one stt.final of the open
\* turn with text x, clears awaiting_final and hands x to the language model
FinalForwarded(x) ==
    /\ final_timeout_task' = 0
    /\ \A t \in 1..Len(ft_tasks) :
          (t = final_timeout_task /\ ft_tasks[t].status = "sleeping")
              => ft_tasks'[t].status = "cancelled"
    /\ n_msgs' = n_msgs + 1
    /\ n_final'[turn_id] = n_final[turn_id] + 1
    /\ \E m \in last_msg' :
          m.type = "stt.final" /\ m.turn_id = turn_id /\ m.text = x
    /\ ~awaiting_final'
    /\ rx_llm' = {[turn |-> turn_id, text |-> x]}
    /\ UNCHANGED turn_id

\* C30: when a provider completed event arrives while awaiting_final, the
\* final-timeout is cancelled, exactly one stt.final is emitted whose text is
\* the provider's transcript if it is non-empty and the accumulated partial
\* buffer otherwise, awaiting_final is cleared and the text is handed to the
\* language model; also when the transcript field of the event is empty.
C30_AwaitedFinalForwarded ==
    [][(EventStep("completed") /\ awaiting_final) =>
         FinalForwarded(ExpectedFinalText(last_event'.arg))]_vars

\* C30, the part that holds: the same for completed events whose transcript
\* is not empty.
C30_NonEmptyFinalForwarded ==
    [][(EventStep("completed") /\ awaiting_final /\ last_event'.arg # <<>>) =>
         FinalForwarded(last_event'.arg)]_vars

(***************************************************************************)
(* Claims about AudioEncoder (checked under SpecEnc)                       *)
(***************************************************************************)
RECURSIVE Flatten(_)
\* the concatenation of a list of chunks
Flatten(cs) ==
    IF cs = <<>> THEN <<>> ELSE Head(cs) \o Flatten(Tail(cs))

\* C14: for any sequence of normalized frames fed to process_frame, the
\* concatenation of the emitted chunks is the first floor(total / 480) * 480
\* samples of the concatenated normalized stream in the same order, every
\* emitted chunk has exactly 480 samples, and after each call fewer than 480
\* samples remain pending.
C14_ChunksAreStreamPrefix ==
    /\ Flatten(enc_out) = [i \in 1..((enc_fed \div 480) * 480) |-> i]
    /\ \A k \in 1..Len(enc_out) : Len(enc_out[k]) = 480
    /\ Len(enc_buffer) < 480

\* C14 witness: one call returned two chunks, earlier calls had emitted some,
\* and a remainder stays pending.
C14_Witness ==
    /\ Len(enc_ret) = 2
    /\ Len(enc_out) >= 3
    /\ Len(enc_buffer) > 0

\* ---------------------------------------------------------------------------
\* Claims about the provider socket's close (SpecClient)
\* ---------------------------------------------------------------------------

\* C21: when the provider socket closes, the receive loop sets the client to
\* disconnected, stops, and surfaces exactly one error to the coordinator:
\* once the loop has ended with the socket, the client is disconnected and
\* exactly one stt.error has been emitted for the disconnect, however many
\* appends are attempted afterwards.
C21_OneErrorPerDisconnect ==
    rx_state = "closed" => (~connected /\ n_err_closed = 1)

(***************************************************************************)
(* Claims about the mic flag and the ingest path (SpecIngest)              *)
(***************************************************************************)
RECURSIVE FedUpTo(_)
\* the number of samples the first k frames read have put into the encoder
FedUpTo(k) ==
    IF k = 0 THEN 0
    ELSE FedUpTo(k - 1) + (IF frame_log[k].fed THEN frame_log[k].n ELSE 0)

\* the frames read while the mic flag was true
FramesReadMicOn ==
    {k \in 1..Len(frame_log) : frame_log[k].mic}

\* the sample at position q of the encoder's stream comes from a frame that
\* was read while the mic flag was true
SampleReadMicOn(q) ==
    \E k \in FramesReadMicOn :
        frame_log[k].fed /\ FedUpTo(k - 1) < q /\ q <= FedUpTo(k)

\* a step that handles a DataChannel message or changes the flag
MicStep ==
    <<mic_enabled, last_mic_msg>>' # <<mic_enabled, last_mic_msg>>

\* C23: mic.enabled / mic.on set the mic flag true, mic.disabled / mic.off set
\* it false and mic.toggle inverts it (nothing else changes it); and for any
\* sequence of control messages and frames, every sample of every chunk passed
\* to append_audio comes from a frame read while the flag was true.
C23_MicOffFramesDropped ==
    /\ [](\A i \in 1..Len(ingest_sent) :
            \A j \in 1..Len(ingest_sent[i]) : SampleReadMicOn(ingest_sent[i][j]))
    /\ [][MicStep =>
            mic_enabled' =
               (IF last_mic_msg' \in {"mic.enabled", "mic.on"} THEN TRUE
                ELSE IF last_mic_msg' \in {"mic.disabled", "mic.off"} THEN FALSE
                ELSE IF last_mic_msg' = "mic.toggle" THEN ~mic_enabled
                ELSE mic_enabled)]_vars

\* C23 witness: a frame was read and dropped while the mic was off, frames
\* read before and after it with the mic on were encoded, and chunks of both
\* were appended.
C23_Witness ==
    /\ Len(frame_log) >= 3
    /\ \E k \in 2..(Len(frame_log) - 1) :
          /\ ~frame_log[k].mic /\ ~frame_log[k].fed
          /\ frame_log[k - 1].fed
          /\ frame_log[k + 1].fed
    /\ Len(ingest_sent) >= 2
    /\ last_mic_msg = "mic.toggle"

\* C39: while the mic flag is true and the client is connected, every 960-byte
\* chunk the accumulator detaches is passed to append_audio, in emission
\* order: no chunk removed from the accumulator's buffer is discarded by the
\* ingest path.
C39_DetachedChunksAppended ==
    (connected /\ FramesReadMicOn = 1..Len(frame_log)) => ingest_sent = enc_out

(***************************************************************************)
(* Claims about local-VAD mode (SpecLocal)                                 *)
(***************************************************************************)
\* the on_commit invocations so far
CommitsCalled ==
    Cardinality({i \in 1..Len(cb_log) : cb_log[i].cb = "commit"})

\* a step in which the segmenter invokes on_commit
SegmenterCommitStep ==
    /\ Len(cb_log') = Len(cb_log) + 1
    /\ cb_log'[Len(cb_log')].cb = "commit"

CleanupStep ==
    ~cleanup_done /\ cleanup_done'

\* after cleanup: the time-out task of the handle, the worker and the
\* receive loop are cancelled or finished and the socket is closed
CleanupStoppedReceiver ==
    /\ final_timeout_task # 0 => TaskDone(final_timeout_task)
    /\ worker_state # "created"
    /\ rx_state # "running"
    /\ rx_llm = {}
    /\ ws_state # "open" /\ ~connected

\* pc.close() is called by cleanup exactly when the connection was not closed
PcClosedOnlyIfOpen ==
    [][CleanupStep =>
         /\ pc_close_calls' = IF pc_state = "closed" THEN pc_close_calls
                                                     ELSE pc_close_calls + 1
         /\ pc_state' = "closed"]_vars

C26_CleanupStopsReceiverAndSocket ==
    /\ [](cleanup_done => CleanupStoppedReceiver)
    /\ PcClosedOnlyIfOpen

(***************************************************************************)
(* Claims about the demultiplexing of provider events (SpecDemux)          *)
(***************************************************************************)
\* a step in which _handle_event handles one message
HandleEventStep ==
    n_events' = n_events + 1

\* the step invoked the callback cb with argument arg
Invoked(cb, arg) ==
    last_cb' = [cb |-> cb, arg |-> arg]

\* error, acknowledgment and other types are handled as the claim says
C32_RestDemultiplexed ==
    /\ last_event'.type = "error" => last_cb'.cb = "error"
    /\ last_event'.type \in AckTypes => last_cb' = NoCallback
    /\ last_event'.type \in OtherTypes =>
          (last_cb' = NoCallback /\ UNCHANGED clientVars)

\* C32: the receive loop demultiplexes every inbound message by its type: a
\* message of one of the two delta types invokes the partial callback with
\* its delta field, one of the two completed types the final callback with
\* its transcript field, error the error callback, an acknowledgment type no
\* callback, and any other type no callback and no change of client state.
C32_EveryMessageDemultiplexed ==
    [][HandleEventStep =>
         /\ last_event'.type \in DeltaTypes => Invoked("partial", last_event'.arg)
         /\ last_event'.type \in CompletedTypes => Invoked("final", last_event'.arg)
         /\ C32_RestDemultiplexed]_vars

\* C32, the part that holds: the same for deltas and transcripts that are
\* not empty; a message whose field is empty invokes no callback.
C32_NonEmptyDemultiplexed ==
    [][HandleEventStep =>
         /\ (last_event'.type \in DeltaTypes /\ last_event'.arg # <<>>)
               => Invoked("partial", last_event'.arg)
         /\ (last_event'.type \in CompletedTypes /\ last_event'.arg # <<>>)
               => Invoked("final", last_event'.arg)
         /\ (last_event'.type \in DeltaTypes \cup CompletedTypes
                /\ last_event'.arg = <<>>) => last_cb' = NoCallback
         /\ C32_RestDemultiplexed]_vars

\* C33: each input_audio_buffer.speech_started / speech_stopped message of
\* the provider invokes the coordinator's _on_speech_started /
\* _on_speech_stopped callback, once, when it is handled (so in arrival
\* order).
C33_VadEventsInvokeCallbacks ==
    [][HandleEventStep =>
         /\ last_event'.type = "input_audio_buffer.speech_started"
               => last_cb'.cb = "speech_started"
         /\ last_event'.type = "input_audio_buffer.speech_stopped"
               => last_cb'.cb = "speech_stopped"]_vars

CleanedUp ==
    seg_cleanup.pc = "done" /\ n_chunks_in = seg_cleanup.chunks

\* C40: VADSegmenter.cleanup always terminates, whatever the hangover timer
\* task is doing when it is called (sleeping, waiting for the lock, or
\* finished); afterwards the state is IDLE, the per-segment counter is 0, no
\* timer task is pending, and no commit, append or clear callback fires until
\* process_chunk is called again.
C40_CleanupTerminatesAndResets ==
    /\ (seg_cleanup.pc = "waiting") ~> (seg_cleanup.pc = "done")
    /\ [](CleanedUp =>
            /\ seg_state = "IDLE"
            /\ seg_appended_chunks = 0
            /\ hangover_task = 0
            /\ live_tasks = {}
            /\ seg_lock = {}
            /\ Len(cb_log) = seg_cleanup.cbs)

\* C40 witness: cleanup was called in HANGOVER, cancelled the timer task and
\* ended; the segment's timer never expired.
C40_Witness ==
    /\ CleanedUp
    /\ seg_cleanup.cancelled = 1
    /\ n_tasks = 1
    /\ n_expired = 0
    /\ seg_state = "IDLE"
    /\ live_tasks = {}

(***************************************************************************)
(* Claims about the language-model call of a turn (SpecTurnLive)           *)
(***************************************************************************)
\* the last control message is the stt.final of turn T, sent on the open channel
FinalSent(T) ==
    \E m \in last_msg : m.type = "stt.final" /\ m.turn_id = T /\ m.ok

\* the last control message is the llm.response or llm.error of turn T
LlmReplied(T) ==
    \E m \in last_msg : m.type \in {"llm.response", "llm.error"} /\ m.turn_id = T

\* C36: every turn for which an stt.final was emitted eventually gets an
\* llm.response or llm.error with the same turn_id, whether the final came
\* from the provider or from the final-timeout, also when a speech_started
\* arrives while the language-model call is running.
C36_FinalGetsLlmReply ==
    \A T \in 1..MaxEvents : FinalSent(T) ~> LlmReplied(T)

\* C36, the part that holds: a final that came from the provider gets its
\* llm.response or llm.error.
C36_ProviderFinalGetsLlmReply ==
    \A T \in 1..MaxEvents :
        (\E c \in rx_llm : c.turn = T) ~> LlmReplied(T)

(***************************************************************************)
(* Claims about the turn a provider final belongs to (SpecAttrib)          *)
(***************************************************************************)
\* the provider's events were well-formed turns: speech_started and
\* speech_stopped alternate
ProviderTurnsWellFormed ==
    \A i \in 1..Len(vad_log) :
        vad_log[i] = IF i % 2 = 1 THEN "vad.speech_started"
                                  ELSE "vad.speech_stopped"

\* C37: an stt.final is attributed to the turn whose audio it transcribes: a
\* provider final for turn T that arrives after speech_started and
\* speech_stopped of turn T+1 is never emitted as the stt.final of turn T+1.
C37_FinalAttributedToItsTurn ==
    ProviderTurnsWellFormed =>
        \A m \in last_msg : \A T \in 1..MaxEvents :
            (m.type = "stt.final" /\ m.text = Utterance(T)) => m.turn_id = T

====
